---- MODULE Spec2Model ----
(***************************************************************************)
(* A model of the hypergen-dashboard front end: the campaign-statistics    *)
(* components (src/src/App.jsx, src/src/ReportingApp.jsx and the Dashboard *)
(* component), their fetch effects, debounce timer and the pure statistics *)
(* functions they call.                                                    *)
(*                                                                         *)
(* JavaScript numbers are IEEE-754 doubles.  Counts are small integers and *)
(* are kept as TLA+ integers; the rate arithmetic (a division, a multipli- *)
(* cation by 100 and Number.prototype.toFixed) is carried out on an exact  *)
(* binary64 representation, so that rounding is the code's rounding.       *)
(***************************************************************************)
EXTENDS Integers, Sequences, FiniteSets, TLC

(***************************************************************************)
(* Natural numbers of any size, as sequences of limbs in 0..Base-1, least  *)
(* significant limb first and without high zero limbs (<<>> is 0).  Limbs  *)
(* of 15 bits keep every intermediate product below 2^31.                  *)
(***************************************************************************)
Base == 2 ^ 15

Zeros(k) == [i \in 1..k |-> 0]

RECURSIVE LFromInt(_)
LFromInt(n) == IF n = 0 THEN <<>> ELSE <<n % Base>> \o LFromInt(n \div Base)

RECURSIVE LVal(_)
LVal(a) == IF a = <<>> THEN 0 ELSE a[1] + Base * LVal(Tail(a))

RECURSIVE LTrim(_)
LTrim(a) == IF a = <<>> THEN <<>>
            ELSE IF a[Len(a)] # 0 THEN a
            ELSE LTrim(SubSeq(a, 1, Len(a) - 1))

Limb(a, i) == IF i <= Len(a) THEN a[i] ELSE 0

\* -1, 0, 1 as a < b, a = b, a > b
RECURSIVE LCmpFrom(_, _, _)
LCmpFrom(a, b, i) ==
    IF i = 0 THEN 0
    ELSE IF a[i] > b[i] THEN 1
    ELSE IF a[i] < b[i] THEN -1
    ELSE LCmpFrom(a, b, i - 1)

LCmp(a, b) == IF Len(a) > Len(b) THEN 1
              ELSE IF Len(a) < Len(b) THEN -1
              ELSE LCmpFrom(a, b, Len(a))

RECURSIVE LAddFrom(_, _, _, _)
LAddFrom(a, b, i, carry) ==
    IF i > Len(a) /\ i > Len(b)
    THEN (IF carry = 0 THEN <<>> ELSE <<carry>>)
    ELSE LET s == Limb(a, i) + Limb(b, i) + carry
         IN  <<s % Base>> \o LAddFrom(a, b, i + 1, s \div Base)

LAdd(a, b) == LAddFrom(a, b, 1, 0)

\* a - b, for a >= b
RECURSIVE LSubFrom(_, _, _, _)
LSubFrom(a, b, i, borrow) ==
    IF i > Len(a) THEN <<>>
    ELSE LET d == a[i] - Limb(b, i) - borrow
         IN  <<IF d < 0 THEN d + Base ELSE d>>
                 \o LSubFrom(a, b, i + 1, IF d < 0 THEN 1 ELSE 0)

LSub(a, b) == LTrim(LSubFrom(a, b, 1, 0))

\* a * m, for 0 <= m < Base
RECURSIVE LMulSmallFrom(_, _, _, _)
LMulSmallFrom(a, m, i, carry) ==
    IF i > Len(a) THEN (IF carry = 0 THEN <<>> ELSE <<carry>>)
    ELSE LET p == a[i] * m + carry
         IN  <<p % Base>> \o LMulSmallFrom(a, m, i + 1, p \div Base)

LMulSmall(a, m) == IF m = 0 THEN <<>> ELSE LMulSmallFrom(a, m, 1, 0)

LShiftLimbs(a, n) == IF a = <<>> THEN <<>> ELSE Zeros(n) \o a

RECURSIVE LMulFrom(_, _, _)
LMulFrom(a, b, i) ==
    IF i > Len(b) THEN <<>>
    ELSE LAdd(LShiftLimbs(LMulSmall(a, b[i]), i - 1), LMulFrom(a, b, i + 1))

LMul(a, b) == LMulFrom(a, b, 1)

\* floor(a / m), for 0 < m < Base, from the most significant limb
RECURSIVE LDivSmallFrom(_, _, _, _)
LDivSmallFrom(a, m, i, rem) ==
    IF i = 0 THEN <<>>
    ELSE LET n == rem * Base + a[i]
         IN  Append(LDivSmallFrom(a, m, i - 1, n % m), n \div m)

LDivSmall(a, m) == LTrim(LDivSmallFrom(a, m, Len(a), 0))

\* a * 2^k and floor(a / 2^k)
LShl(a, k) == LShiftLimbs(LMulSmall(a, 2 ^ (k % 15)), k \div 15)
LShr(a, k) == IF k \div 15 >= Len(a) THEN <<>>
              ELSE LDivSmall(SubSeq(a, k \div 15 + 1, Len(a)), 2 ^ (k % 15))

\* The bit of a that has weight 2^k
LBit(a, k) == (Limb(a, k \div 15 + 1) \div (2 ^ (k % 15))) % 2

\* a mod 2^k = 0
LLowZero(a, k) == /\ \A i \in 1..(k \div 15) : Limb(a, i) = 0
                  /\ Limb(a, k \div 15 + 1) % (2 ^ (k % 15)) = 0

\* The number of bits of a, and the number of zero bits below its lowest
\* set bit (a # 0)
LBitLen(a) == IF a = <<>> THEN 0
              ELSE 15 * (Len(a) - 1)
                     + (CHOOSE k \in 1..15 : 2 ^ (k - 1) <= a[Len(a)] /\ a[Len(a)] < 2 ^ k)

LTrailingZeros(a) == CHOOSE k \in 0..(15 * Len(a)) :
                         LBit(a, k) = 1 /\ LLowZero(a, k)

\* The largest digit whose product with d does not exceed part, q being at
\* least that digit
RECURSIVE DigitAtMost(_, _, _)
DigitAtMost(part, d, q) ==
    IF LCmp(LMulSmall(d, q), part) <= 0 THEN q
    ELSE DigitAtMost(part, d, q - 1)

\* floor(part / d) for part < d * Base and d with its highest bit set in
\* its highest limb: the quotient of the two highest limbs of part by the
\* highest limb of d is that digit or up to two more (Knuth, 4.3.1 B)
QuotientDigit(part, d) ==
    LET estimate == (Limb(part, Len(d) + 1) * Base + Limb(part, Len(d)))
                        \div d[Len(d)]
    IN  DigitAtMost(part, d, IF estimate > Base - 1 THEN Base - 1 ELSE estimate)

\* Long division of n by d, one limb of n at a time from limb i down, rem
\* being the remainder and q the quotient of the limbs above i.  LDivLimb
\* has the digit of limb i, which it settles before the limbs below are
\* divided.
RECURSIVE LDivFrom(_, _, _, _, _)
LDivLimb(n, d, i, part, digit, q) ==
    IF digit < 0 THEN [q |-> <<>>, r |-> <<>>]
    ELSE LDivFrom(n, d, i - 1, LSub(part, LMulSmall(d, digit)), <<digit>> \o q)

LDivFrom(n, d, i, rem, q) ==
    IF i = 0 THEN [q |-> LTrim(q), r |-> rem]
    ELSE LDivLimb(n, d, i, LTrim(<<n[i]>> \o rem),
                  QuotientDigit(LTrim(<<n[i]>> \o rem), d), q)

\* [q |-> n div d, r |-> n mod d] for d # 0: both are shifted to bring the
\* highest bit of d to the top of its limb, which leaves the quotient as it
\* is and shifts the remainder.  The highest Len(d) - 1 limbs of n are below
\* d: the division starts with them as the remainder.
LDivShifted(n, d, shift) ==
    IF Len(n) < Len(d) THEN [q |-> <<>>, r |-> LShr(n, shift)]
    ELSE [q |-> LDivFrom(n, d, Len(n) - Len(d) + 1,
                         SubSeq(n, Len(n) - Len(d) + 2, Len(n)), <<>>).q,
          r |-> LShr(LDivFrom(n, d, Len(n) - Len(d) + 1,
                              SubSeq(n, Len(n) - Len(d) + 2, Len(n)), <<>>).r,
                     shift)]

LDivMod(n, d) ==
    IF n = <<>> THEN [q |-> <<>>, r |-> <<>>]
    ELSE LDivShifted(LShl(n, 15 * Len(d) - LBitLen(d)),
                     LShl(d, 15 * Len(d) - LBitLen(d)),
                     15 * Len(d) - LBitLen(d))

(***************************************************************************)
(* binary64.  A finite double is sign * man * 2^exp with man a natural of  *)
(* at most MantissaBits bits; the representation is made unique by keeping *)
(* man odd (or man = 0 with exp 0 and sign 1: the model has one zero).     *)
(* The exponent range of binary64 is never approached by the values of     *)
(* this model.                                                             *)
(***************************************************************************)
MantissaBits == 53

FZero == [sign |-> 1, man |-> <<>>, exp |-> 0]

FCanon(sign, man, exp) ==
    IF man = <<>> THEN FZero
    ELSE LET tz == LTrailingZeros(man)
         IN  [sign |-> sign, man |-> LShr(man, tz), exp |-> exp + tz]

\* sign * man * 2^exp (plus a non-zero amount below the last bit of man when
\* sticky), rounded to the nearest double, ties to even.  With sticky set the
\* caller passes more than MantissaBits bits.
FRound(sign, man, exp, sticky) ==
    IF LBitLen(man) <= MantissaBits THEN FCanon(sign, man, exp)
    ELSE LET drop  == LBitLen(man) - MantissaBits
             keep  == LShr(man, drop)
             below == sticky \/ ~LLowZero(man, drop - 1)
             up    == LBit(man, drop - 1) = 1 /\ (below \/ LBit(keep, 0) = 1)
         IN  FCanon(sign, IF up THEN LAdd(keep, <<1>>) ELSE keep, exp + drop)

FromInt(n) == IF n = 0 THEN FZero
              ELSE FRound(IF n < 0 THEN -1 ELSE 1,
                          LFromInt(IF n < 0 THEN -n ELSE n), 0, FALSE)

FNeg(x) == IF x.man = <<>> THEN x ELSE [x EXCEPT !.sign = -x.sign]

\* x * y
FMul(x, y) == IF x.man = <<>> \/ y.man = <<>> THEN FZero
              ELSE FRound(x.sign * y.sign, LMul(x.man, y.man),
                          x.exp + y.exp, FALSE)

\* x / y for y # 0: the quotient of the mantissas to at least
\* MantissaBits + 2 bits, the remainder deciding the sticky bit
FDiv(x, y) ==
    IF x.man = <<>> THEN FZero
    ELSE LET scale == MantissaBits + 3 + LBitLen(y.man) - LBitLen(x.man)
             qr    == LDivMod(LShl(x.man, scale), y.man)
         IN  FRound(x.sign * y.sign, qr.q, x.exp - y.exp - scale, qr.r # <<>>)

\* x + y
FAdd(x, y) ==
    IF x.man = <<>> THEN y
    ELSE IF y.man = <<>> THEN x
    ELSE LET e  == IF x.exp < y.exp THEN x.exp ELSE y.exp
             xm == LShl(x.man, x.exp - e)
             ym == LShl(y.man, y.exp - e)
             c  == LCmp(xm, ym)
         IN  IF x.sign = y.sign THEN FRound(x.sign, LAdd(xm, ym), e, FALSE)
             ELSE IF c = 0 THEN FZero
             ELSE IF c > 0 THEN FRound(x.sign, LSub(xm, ym), e, FALSE)
             ELSE FRound(y.sign, LSub(ym, xm), e, FALSE)

FSub(x, y) == FAdd(x, FNeg(y))

(***************************************************************************)
(* Decimal strings                                                         *)
(***************************************************************************)
Digit(d) == CASE d = 0 -> "0" [] d = 1 -> "1" [] d = 2 -> "2" [] d = 3 -> "3"
              [] d = 4 -> "4" [] d = 5 -> "5" [] d = 6 -> "6" [] d = 7 -> "7"
              [] d = 8 -> "8" [] d = 9 -> "9"

RECURSIVE NatToString(_)
NatToString(n) == IF n < 10 THEN Digit(n)
                  ELSE NatToString(n \div 10) \o Digit(n % 10)

\* Number.prototype.toFixed(1) (ECMA-262 21.1.3.3): with x the absolute
\* value, the integer n for which n / 10 - x is as close to zero as possible,
\* the larger n when there are two; its digits with a point before the last
\* one; a leading "-" when the number is negative.
ToFixedTenths(x) ==
    LET tenfold == LMulSmall(x.man, 10)
    IN  IF x.exp >= 0 THEN LVal(LShl(tenfold, x.exp))
        ELSE LVal(LShr(tenfold, -x.exp)) + LBit(tenfold, -x.exp - 1)

toFixed1(x) ==
    LET tenths == ToFixedTenths(x)
    IN  (IF x.sign < 0 THEN "-" ELSE "")
            \o NatToString(tenths \div 10) \o "." \o Digit(tenths % 10)

(***************************************************************************)
(* JavaScript values.  A value carries its type tag; a number is an        *)
(* integer here (the counts of the API), or NaN.  A string that a Date can *)
(* parse carries the time it parses to.                                    *)
(***************************************************************************)
Undefined == [t |-> "undefined"]
Null      == [t |-> "null"]
NaN       == [t |-> "nan"]
Num(n)    == [t |-> "number", v |-> n]
Str(s)    == [t |-> "string", v |-> s]
DateString(s, ms) == [t |-> "string", v |-> s, time |-> ms]

\* ToBoolean
Truthy(x) == CASE x.t = "undefined" -> FALSE
               [] x.t = "null"      -> FALSE
               [] x.t = "nan"       -> FALSE
               [] x.t = "number"    -> x.v # 0 \/ "ms" \in DOMAIN x
               [] x.t = "string"    -> x.v # ""
               [] OTHER             -> TRUE

\* x || y
Or(x, y) == IF Truthy(x) THEN x ELSE y

\* x.name: the property of an object, undefined for one it has not and for
\* the property of a string or a number.  Reading a property of null or of
\* undefined throws a TypeError: Get has no value for them.
Get(x, name) ==
    CASE x.t = "object" -> (IF name \in DOMAIN x THEN x[name] ELSE Undefined)
      [] x.t \in {"string", "number", "nan"} -> Undefined

\* The characters of the strings of this model, in code-unit order within
\* each class: a letter's code unit is its place after '@' or '`', a
\* digit's its place after '/'
UpperCase == "ABCDEFGHIJKLMNOPQRSTUVWXYZ"
LowerCase == "abcdefghijklmnopqrstuvwxyz"
Digits    == "0123456789"

\* The place of the one-character string c in the string s, 0 when absent
RECURSIVE IndexIn(_, _, _)
IndexIn(s, c, i) ==
    IF i > Len(s) THEN 0
    ELSE IF SubSeq(s, i, i) = c THEN i ELSE IndexIn(s, c, i + 1)

\* s.charCodeAt(i - 1): punctuation of this model ('-', ' ') is below the
\* digits, the digits below the upper case and the upper below the lower case
CharCode(c) ==
    IF IndexIn(Digits, c, 1) > 0 THEN 47 + IndexIn(Digits, c, 1)
    ELSE IF IndexIn(UpperCase, c, 1) > 0 THEN 64 + IndexIn(UpperCase, c, 1)
    ELSE IF IndexIn(LowerCase, c, 1) > 0 THEN 96 + IndexIn(LowerCase, c, 1)
    ELSE IF c = "-" THEN 45
    ELSE 32

\* s.toLowerCase()
RECURSIVE toLowerCase(_)
toLowerCase(s) ==
    IF s = "" THEN ""
    ELSE (IF IndexIn(UpperCase, Head(s), 1) > 0
          THEN SubSeq(LowerCase, IndexIn(UpperCase, Head(s), 1),
                      IndexIn(UpperCase, Head(s), 1))
          ELSE Head(s)) \o toLowerCase(Tail(s))

\* s.split(separator), for a separator of one character
RECURSIVE split(_, _)
split(s, separator) ==
    LET at == IndexIn(s, separator, 1)
    IN  IF at = 0 THEN <<s>>
        ELSE <<SubSeq(s, 1, at - 1)>> \o split(SubSeq(s, at + 1, Len(s)), separator)

\* s.trim(), the white space of this model being the space
RECURSIVE trim(_)
trim(s) ==
    IF s = "" THEN ""
    ELSE IF SubSeq(s, 1, 1) = " " THEN trim(SubSeq(s, 2, Len(s)))
    ELSE IF SubSeq(s, Len(s), Len(s)) = " " THEN trim(SubSeq(s, 1, Len(s) - 1))
    ELSE s

\* a < b on two strings: by code units, a proper prefix being smaller
RECURSIVE StringLess(_, _)
StringLess(a, b) ==
    IF b = "" THEN FALSE
    ELSE IF a = "" THEN TRUE
    ELSE IF CharCode(Head(a)) # CharCode(Head(b))
         THEN CharCode(Head(a)) < CharCode(Head(b))
         ELSE StringLess(Tail(a), Tail(b))

\* The number a string of decimal digits denotes, -1 for any other string
RECURSIVE ParseDigits(_, _)
ParseDigits(s, acc) ==
    IF s = "" THEN acc
    ELSE IF IndexIn(Digits, Head(s), 1) = 0 THEN -1
    ELSE ParseDigits(Tail(s), 10 * acc + IndexIn(Digits, Head(s), 1) - 1)

\* A time is counted in days here, 86,400,000 ms making a day: the dates of
\* the model are date-only strings, which parse to midnight UTC, and a time
\* that is not midnight carries its milliseconds since midnight besides.
\* The day number of a civil date (0 is 1970-01-01)
DaysFromCivil(y, m, d) ==
    LET yy  == IF m <= 2 THEN y - 1 ELSE y
        era == yy \div 400
        yoe == yy - era * 400
        doy == (153 * (IF m > 2 THEN m - 3 ELSE m + 9) + 2) \div 5 + d - 1
        doe == yoe * 365 + yoe \div 4 - yoe \div 100 + doy
    IN  era * 146097 + doe - 719468

\* The civil date of a day number
CivilFromDays(days) ==
    LET z   == days + 719468
        era == z \div 146097
        doe == z - era * 146097
        yoe == (doe - doe \div 1460 + doe \div 36524 - doe \div 146096) \div 365
        doy == doe - (365 * yoe + yoe \div 4 - yoe \div 100)
        mp  == (5 * doy + 2) \div 153
        m   == IF mp < 10 THEN mp + 3 ELSE mp - 9
    IN  [y |-> yoe + era * 400 + (IF m <= 2 THEN 1 ELSE 0), m |-> m,
         d |-> doy - (153 * mp + 2) \div 5 + 1]

(***************************************************************************)
(* Date.parse, as V8 has it (the time zone of the process is UTC).  The    *)
(* scanner cuts the string into tokens; a date-time string of ES5 is       *)
(* parsed first, and what it leaves is handed to the legacy parser; the    *)
(* composers then write the day, the time and the time zone read.          *)
(***************************************************************************)
\* The characters the scanner tells apart in the strings of this model (of
\* the characters from A on that are no letters, those the strings may hold)
WhiteSpaceChars == " \t\n\f\r"
SymbolChars == ":-+.)"
AsciiAlphaOrAbove == UpperCase \o "[\\]^_" \o LowerCase \o "{|}~"

\* The place after the characters of the class that s has from place i on
RECURSIVE SpanEnd(_, _, _)
SpanEnd(s, i, class) ==
    IF i <= Len(s) /\ IndexIn(class, SubSeq(s, i, i), 1) > 0
    THEN SpanEnd(s, i + 1, class)
    ELSE i

\* The place after the parentheses that open at place i: they nest, and
\* the end of the string closes them
RECURSIVE SkipParentheses(_, _, _)
SkipParentheses(s, i, balance) ==
    LET now == balance + (IF SubSeq(s, i, i) = "(" THEN 1
                          ELSE IF SubSeq(s, i, i) = ")" THEN -1 ELSE 0)
    IN  IF now > 0 /\ i < Len(s) THEN SkipParentheses(s, i + 1, now)
        ELSE i + 1

\* A token: a number with the count of its digits, a symbol, a keyword with
\* its type and value and the length of its word, white space, or else
DateToken(kind, c, n, length) == [k |-> kind, c |-> c, n |-> n, length |-> length]
EndOfInput == DateToken("end", "", 0, 0)

\* The words the parser knows, by their first three letters in lower case
KeywordTable ==
    << <<"jan", "month", 1>>, <<"feb", "month", 2>>, <<"mar", "month", 3>>,
       <<"apr", "month", 4>>, <<"may", "month", 5>>, <<"jun", "month", 6>>,
       <<"jul", "month", 7>>, <<"aug", "month", 8>>, <<"sep", "month", 9>>,
       <<"oct", "month", 10>>, <<"nov", "month", 11>>, <<"dec", "month", 12>>,
       <<"am", "ampm", 0>>, <<"pm", "ampm", 12>>,
       <<"ut", "zone", 0>>, <<"utc", "zone", 0>>, <<"z", "zone", 0>>,
       <<"gmt", "zone", 0>>, <<"cdt", "zone", -5>>, <<"cst", "zone", -6>>,
       <<"edt", "zone", -4>>, <<"est", "zone", -5>>, <<"mdt", "zone", -6>>,
       <<"mst", "zone", -7>>, <<"pdt", "zone", -7>>, <<"pst", "zone", -8>>,
       <<"t", "separator", 0>> >>

\* The keyword of a word: an entry matches the word's first three letters,
\* and a word longer than they is a keyword only as the name of a month
KeywordLookup(word) ==
    LET pre == toLowerCase(SubSeq(word, 1, IF Len(word) < 3 THEN Len(word) ELSE 3))
        matches == {j \in 1..Len(KeywordTable) :
                       /\ KeywordTable[j][1] = pre
                       /\ Len(word) <= 3 \/ KeywordTable[j][2] = "month"}
    IN  IF matches = {} THEN DateToken("keyword", "invalid", 0, Len(word))
        ELSE LET j == CHOOSE j \in matches : TRUE
             IN  DateToken("keyword", KeywordTable[j][2], KeywordTable[j][3],
                           Len(word))

\* The number a numeral denotes: the zeros in front are skipped and the
\* digits past the ninth are dropped
ReadUnsignedNumeral(digits) ==
    LET from == SpanEnd(digits, 1, "0")
        upto == IF Len(digits) - from + 1 > 9
                THEN from + 9 - 1 ELSE Len(digits)
    IN  ParseDigits(SubSeq(digits, from, upto), 0)

\* The tokens of the string s from place i on
RECURSIVE Scan(_, _)
Scan(s, i) ==
    IF i > Len(s) THEN <<>>
    ELSE LET c == SubSeq(s, i, i)
         IN  IF IndexIn(Digits, c, 1) > 0
             THEN LET stop == SpanEnd(s, i, Digits)
                  IN  <<DateToken("number", "",
                                  ReadUnsignedNumeral(SubSeq(s, i, stop - 1)),
                                  stop - i)>> \o Scan(s, stop)
             ELSE IF IndexIn(SymbolChars, c, 1) > 0
             THEN <<DateToken("symbol", c, 0, 1)>> \o Scan(s, i + 1)
             ELSE IF IndexIn(AsciiAlphaOrAbove, c, 1) > 0
             THEN LET stop == SpanEnd(s, i, AsciiAlphaOrAbove)
                  IN  <<KeywordLookup(SubSeq(s, i, stop - 1))>> \o Scan(s, stop)
             ELSE IF IndexIn(WhiteSpaceChars, c, 1) > 0
             THEN <<DateToken("whitespace", "", 0, 1)>> \o Scan(s, i + 1)
             ELSE IF c = "("
             THEN <<DateToken("unknown", "", 0, 0)>>
                      \o Scan(s, SkipParentheses(s, i, 0))
             ELSE <<DateToken("unknown", "", 0, 0)>> \o Scan(s, i + 1)

\* scanner.Peek() with the scanner at token i
Peek(tokens, i) == IF i <= Len(tokens) THEN tokens[i] ELSE EndOfInput

IsFixedNumber(token, length) == token.k = "number" /\ token.length = length
IsSymbol(token, c) == token.k = "symbol" /\ token.c = c
IsAsciiSign(token) == IsSymbol(token, "+") \/ IsSymbol(token, "-")
IsKeywordType(token, type) == token.k = "keyword" /\ token.c = type
IsKeywordZ(token) == IsKeywordType(token, "zone") /\ token.length = 1

IsMonth(n) == 1 <= n /\ n <= 12
IsDay(n) == 1 <= n /\ n <= 31
IsHour(n) == 0 <= n /\ n <= 23
IsHour12(n) == 0 <= n /\ n <= 12
IsMinute(n) == 0 <= n /\ n <= 59
IsSecond(n) == 0 <= n /\ n <= 59
IsMillisecond(n) == 0 <= n /\ n <= 999

\* The milliseconds of the digits after a decimal point: the three most
\* significant digits
ReadMilliseconds(token) ==
    IF token.length = 1 THEN token.n * 100
    ELSE IF token.length = 2 THEN token.n * 10
    ELSE IF token.length > 3
    THEN token.n \div 10 ^ ((IF token.length > 9
                             THEN 9 ELSE token.length) - 3)
    ELSE token.n

\* What the parser has read: the numbers of the day composer and its named
\* month (0 for none), the numbers of the time composer and its hour offset
\* (-1 for none), the sign (0 for none), hour and minute (-1 for none) of
\* the time zone composer, whether a number has been read, the token the
\* scanner is at, and whether the string is still a date
NothingRead ==
    [ok |-> TRUE, day |-> <<>>, month |-> 0, iso |-> FALSE, time |-> <<>>,
     offset |-> -1, sign |-> 0, hour |-> -1, minute |-> -1, read |-> FALSE,
     at |-> 1]

\* The one element of a set of one element.  What is computed once and
\* used many times is the variable of such a set.
TheOne(S) == CHOOSE x \in S : TRUE

\* The year of an ES5 date-time string: four digits, or six with a sign.
\* What is not such a date is left to the legacy parser, from the token
\* named on and with the numbers read so far.
ES5Year(first, second) ==
    IF IsAsciiSign(first)
    THEN IF ~IsFixedNumber(second, 6)
         THEN [legacy |-> TRUE, day |-> <<>>, at |-> 1]
         ELSE IF first.c = "-" /\ second.n = 0
         THEN [legacy |-> TRUE, day |-> <<>>, at |-> 3]
         ELSE [legacy |-> FALSE,
               day |-> <<(IF first.c = "-" THEN -1 ELSE 1) * second.n>>,
               at |-> 3]
    ELSE IF IsFixedNumber(first, 4)
    THEN [legacy |-> FALSE, day |-> <<first.n>>, at |-> 2]
    ELSE [legacy |-> TRUE, day |-> <<>>, at |-> 1]

\* -MM after the year, and -DD after the month: two digits each
ES5Field(read, token, inRange) ==
    IF ~IsFixedNumber(token, 2) \/ ~inRange
    THEN [legacy |-> TRUE, day |-> read.day, at |-> read.at + 1]
    ELSE [legacy |-> FALSE, day |-> Append(read.day, token.n), at |-> read.at + 2]

ES5Month(tokens, year) ==
    IF year.legacy \/ ~IsSymbol(Peek(tokens, year.at), "-") THEN year
    ELSE ES5Field(year, Peek(tokens, year.at + 1),
                  IsMonth(Peek(tokens, year.at + 1).n))

ES5Day(tokens, month) ==
    IF month.legacy \/ Len(month.day) # 2
       \/ ~IsSymbol(Peek(tokens, month.at), "-") THEN month
    ELSE ES5Field(month, Peek(tokens, month.at + 1),
                  IsDay(Peek(tokens, month.at + 1).n))

\* The date of an ES5 date-time string
ParseES5Date(tokens) ==
    TheOne({ES5Day(tokens, month) :
                month \in {ES5Month(tokens, year) :
                               year \in {ES5Year(Peek(tokens, 1), Peek(tokens, 2))}}})

\* The time of day of an ES5 date-time string, whose 'T' is token at: HH:mm,
\* then :ss and .sss.  24:00:00.000 is the one time of hour 24.
ES5Clock(tokens, at) ==
    LET hh == Peek(tokens, at + 1)
        mm == Peek(tokens, at + 3)
        hasSeconds == IsSymbol(Peek(tokens, at + 4), ":")
        ss == Peek(tokens, at + 5)
        hasFraction == hasSeconds /\ IsSymbol(Peek(tokens, at + 6), ".")
        fraction == Peek(tokens, at + 7)
    IN  [ok |-> /\ IsFixedNumber(hh, 2) /\ hh.n <= 24
                /\ IsSymbol(Peek(tokens, at + 2), ":")
                /\ IsFixedNumber(mm, 2) /\ IsMinute(mm.n)
                /\ hh.n = 24 => mm.n = 0
                /\ hasSeconds => /\ IsFixedNumber(ss, 2) /\ IsSecond(ss.n)
                                 /\ hh.n = 24 => ss.n = 0
                /\ hasFraction => /\ fraction.k = "number"
                                  /\ hh.n = 24 => fraction.n = 0,
         time |-> <<hh.n, mm.n>>
                     \o (IF hasSeconds THEN <<ss.n>> ELSE <<>>)
                     \o (IF hasFraction THEN <<ReadMilliseconds(fraction)>> ELSE <<>>),
         stop |-> at + 4 + (IF hasSeconds THEN 2 ELSE 0)
                         + (IF hasFraction THEN 2 ELSE 0)]

\* The time zone of an ES5 date-time string, from token at on: Z, or an
\* offset of +hh:mm or +hhmm, or none
ES5Zone(zone, offset, colon, minutes, at) ==
    IF IsKeywordZ(zone)
    THEN [ok |-> TRUE, sign |-> 1, hour |-> 0, minute |-> 0, stop |-> at + 1]
    ELSE IF ~IsAsciiSign(zone)
    THEN [ok |-> TRUE, sign |-> 0, hour |-> -1, minute |-> -1, stop |-> at]
    ELSE IF IsFixedNumber(offset, 4)
    THEN [ok |-> IsHour(offset.n \div 100) /\ IsMinute(offset.n % 100),
          sign |-> IF zone.c = "+" THEN 1 ELSE -1,
          hour |-> offset.n \div 100, minute |-> offset.n % 100,
          stop |-> at + 2]
    ELSE [ok |-> /\ IsFixedNumber(offset, 2) /\ IsHour(offset.n)
                 /\ IsSymbol(colon, ":")
                 /\ IsFixedNumber(minutes, 2) /\ IsMinute(minutes.n),
          sign |-> IF zone.c = "+" THEN 1 ELSE -1,
          hour |-> offset.n, minute |-> minutes.n, stop |-> at + 4]

\* The time and the time zone of an ES5 date-time string, and nothing after
ES5Time(tokens, clock, zone) ==
    [ok |-> clock.ok /\ zone.ok /\ zone.stop > Len(tokens),
     time |-> clock.time, sign |-> zone.sign, hour |-> zone.hour,
     minute |-> zone.minute]

ES5ZoneAfter(tokens, clock) ==
    TheOne({ES5Time(tokens, clock, zone) :
                zone \in {ES5Zone(Peek(tokens, clock.stop),
                                  Peek(tokens, clock.stop + 1),
                                  Peek(tokens, clock.stop + 2),
                                  Peek(tokens, clock.stop + 3), clock.stop)}})

ParseES5Time(tokens, at) ==
    TheOne({ES5ZoneAfter(tokens, clock) : clock \in {ES5Clock(tokens, at)}})

\* An ES5 date with its time
ES5DateWithTime(tokens, date, time) ==
    [NothingRead EXCEPT !.ok = time.ok, !.day = date.day, !.iso = TRUE,
                        !.time = time.time, !.sign = time.sign,
                        !.hour = time.hour, !.minute = time.minute,
                        !.read = TRUE, !.at = Len(tokens) + 1]

\* What follows the date of an ES5 date-time string: a date alone is UTC; a
\* date with a time and no time zone is local
ES5DateTime(tokens, date) ==
    IF date.legacy
    THEN [NothingRead EXCEPT !.day = date.day, !.at = date.at,
                             !.read = date.day # <<>>]
    ELSE IF IsKeywordType(Peek(tokens, date.at), "separator")
    THEN TheOne({ES5DateWithTime(tokens, date, time) :
                     time \in {ParseES5Time(tokens, date.at)}})
    ELSE IF date.at <= Len(tokens)
    THEN [NothingRead EXCEPT !.day = date.day, !.at = date.at, !.read = TRUE]
    ELSE [NothingRead EXCEPT !.day = date.day, !.iso = TRUE, !.sign = 1,
                             !.hour = 0, !.minute = 0, !.read = TRUE,
                             !.at = Len(tokens) + 1]

\* ParseES5DateTime
ParseES5DateTime(tokens) ==
    TheOne({ES5DateTime(tokens, date) : date \in {ParseES5Date(tokens)}})

\* No date
NotADate == [NothingRead EXCEPT !.ok = FALSE]

\* time.IsExpecting(n): a minute after the hour, a second after the minute,
\* milliseconds after the second
TimeIsExpecting(time, n) ==
    \/ Len(time) = 1 /\ IsMinute(n)
    \/ Len(time) = 2 /\ IsSecond(n)
    \/ Len(time) = 3 /\ IsMillisecond(n)

\* time.AddFinal(n): n is added, if there is room, and zeros fill the rest
TimeAddFinal(time, n) ==
    IF Len(time) >= 4 THEN time
    ELSE Append(time, n) \o Zeros(3 - Len(time))

\* The legacy parser on a number
LegacyNumber(tokens, p) ==
    LET n == tokens[p.at].n
        q == [p EXCEPT !.read = TRUE]
        dot == IsSymbol(Peek(tokens, p.at + 1), ".")
        at == IF dot THEN p.at + 2 ELSE p.at + 1
        peek == Peek(tokens, at)
    IN  IF IsSymbol(Peek(tokens, p.at + 1), ":")
        THEN IF IsSymbol(Peek(tokens, p.at + 2), ":")
             THEN IF q.time # <<>> THEN NotADate
                  ELSE [q EXCEPT !.time = <<n, 0>>, !.at = p.at + 3]
             ELSE IF Len(q.time) >= 4 THEN NotADate
             ELSE [q EXCEPT !.time = Append(@, n),
                            !.at = IF IsSymbol(Peek(tokens, p.at + 2), ".")
                                   THEN p.at + 3 ELSE p.at + 2]
        ELSE IF dot /\ TimeIsExpecting(q.time, n)
        THEN IF peek.k # "number" THEN NotADate
             ELSE [q EXCEPT !.time = TimeAddFinal(Append(@, n),
                                                  ReadMilliseconds(peek)),
                            !.at = at + 1]
        ELSE IF q.hour # -1 /\ q.minute = -1 /\ IsMinute(n)
        THEN [q EXCEPT !.minute = n, !.at = at]
        ELSE IF TimeIsExpecting(q.time, n)
        THEN IF peek.k \in {"end", "whitespace"} \/ IsKeywordZ(peek)
                \/ IsAsciiSign(peek)
             THEN [q EXCEPT !.time = TimeAddFinal(@, n), !.at = at]
             ELSE NotADate
        ELSE IF Len(q.day) >= 3 THEN NotADate
        ELSE [q EXCEPT !.day = Append(@, n),
                       !.at = IF IsSymbol(peek, "-") THEN at + 1 ELSE at]

\* The legacy parser on a word: am and pm after a time, the name of a
\* month, the name of a time zone after a number; any other word may only
\* come before the first number, and apart from it
LegacyKeyword(tokens, p) ==
    LET token == tokens[p.at]
    IN  IF token.c = "ampm" /\ p.time # <<>>
        THEN [p EXCEPT !.offset = token.n, !.at = p.at + 1]
        ELSE IF token.c = "month"
        THEN [p EXCEPT !.month = token.n,
                       !.at = IF IsSymbol(Peek(tokens, p.at + 1), "-")
                              THEN p.at + 2 ELSE p.at + 1]
        ELSE IF token.c = "zone" /\ p.read
        THEN [p EXCEPT !.sign = IF token.n < 0 THEN -1 ELSE 1,
                       !.hour = IF token.n < 0 THEN -token.n ELSE token.n,
                       !.minute = 0, !.at = p.at + 1]
        ELSE IF p.read \/ Peek(tokens, p.at + 1).k = "number" THEN NotADate
        ELSE [p EXCEPT !.at = p.at + 1]

\* The legacy parser on a sign after UTC or after a time: the offset of the
\* time zone, in hours, in hours and minutes, or in hours before a colon
LegacyOffset(tokens, p) ==
    LET number == Peek(tokens, p.at + 1).k = "number"
        n == IF number THEN tokens[p.at + 1].n ELSE 0
        length == IF number THEN tokens[p.at + 1].length ELSE 0
        at == IF number THEN p.at + 2 ELSE p.at + 1
        q == [p EXCEPT !.sign = IF tokens[p.at].c = "+" THEN 1 ELSE -1,
                       !.read = TRUE, !.at = at]
    IN  IF IsSymbol(Peek(tokens, at), ":")
        THEN [q EXCEPT !.hour = n, !.minute = -1]
        ELSE IF length \in {1, 2}
        THEN [q EXCEPT !.hour = n, !.minute = 0]
        ELSE IF length \in {3, 4}
        THEN [q EXCEPT !.hour = n \div 100, !.minute = n % 100]
        ELSE NotADate

\* The legacy parser on the token the scanner is at
LegacyToken(tokens, p) ==
    LET token == tokens[p.at]
    IN  IF token.k = "number" THEN LegacyNumber(tokens, p)
        ELSE IF token.k = "keyword" THEN LegacyKeyword(tokens, p)
        ELSE IF IsAsciiSign(token)
                /\ ((p.hour = 0 /\ p.minute = 0) \/ p.time # <<>>)
        THEN LegacyOffset(tokens, p)
        ELSE IF (IsAsciiSign(token) \/ IsSymbol(token, ")")) /\ p.read
        THEN NotADate
        ELSE [p EXCEPT !.at = p.at + 1]

\* The legacy parser, up to the end of the tokens
RECURSIVE ParseLegacy(_, _)
ParseLegacy(tokens, p) ==
    IF ~p.ok \/ p.at > Len(tokens) THEN p
    ELSE ParseLegacy(tokens, LegacyToken(tokens, p))

\* DayComposer::Write: a month and a day not read are 1; without the name
\* of a month the numbers are year-month-day when the first is no day of a
\* month, and month-day-year else; a year below 50 is of this century and
\* one below 100 of the last, except in an ES5 date
DayComposerWrite(p) ==
    LET comp == p.day \o [i \in 1..(3 - Len(p.day)) |-> 1]
        ymd == IF p.month = 0
               THEN IF p.iso \/ ~IsDay(comp[1])
                    THEN [year |-> comp[1], month |-> comp[2], day |-> comp[3]]
                    ELSE [year |-> comp[3], month |-> comp[1], day |-> comp[2]]
               ELSE IF ~IsDay(comp[1])
                    THEN [year |-> comp[1], month |-> p.month, day |-> comp[2]]
                    ELSE [year |-> comp[2], month |-> p.month, day |-> comp[1]]
        year == IF p.iso THEN ymd.year
                ELSE IF 0 <= ymd.year /\ ymd.year <= 49 THEN ymd.year + 2000
                ELSE IF 50 <= ymd.year /\ ymd.year <= 99 THEN ymd.year + 1900
                ELSE ymd.year
    IN  IF p.day = <<>> THEN [ok |-> FALSE]
        ELSE [ok |-> IsMonth(ymd.month) /\ IsDay(ymd.day), year |-> year,
              month |-> ymd.month, day |-> ymd.day]

\* TimeComposer::Write: what was not read is 0; with am or pm the hour is
\* one of twelve; the milliseconds since midnight
TimeComposerWrite(p) ==
    LET comp == p.time \o Zeros(4 - Len(p.time))
        hour == IF p.offset = -1 THEN comp[1] ELSE (comp[1] % 12) + p.offset
    IN  [ok |-> /\ p.offset # -1 => IsHour12(comp[1])
                /\ \/ /\ IsHour(hour) /\ IsMinute(comp[2]) /\ IsSecond(comp[3])
                      /\ IsMillisecond(comp[4])
                   \/ hour = 24 /\ comp[2] = 0 /\ comp[3] = 0 /\ comp[4] = 0,
         ms |-> IF hour <= 24 /\ IsMinute(comp[2]) /\ IsSecond(comp[3])
                THEN ((hour * 60 + comp[2]) * 60 + comp[3]) * 1000 + comp[4]
                ELSE 0]

\* TimeZoneComposer::Write: the seconds east of UTC, computed in 32 bits and
\* no date when beyond 2^31 - 1; no time zone read is the local one, UTC
TimeZoneComposerWrite(p) ==
    LET hour == IF p.hour = -1 THEN 0 ELSE p.hour
        minute == IF p.minute = -1 THEN 0 ELSE p.minute
        total == LAdd(LMulSmall(LFromInt(hour), 3600),
                      LMulSmall(LFromInt(minute), 60))
    IN  IF p.sign = 0 THEN [ok |-> TRUE, seconds |-> 0]
        ELSE [ok |-> LBit(total, 31) = 0,
              seconds |-> p.sign * (Limb(total, 1) + Base * Limb(total, 2)
                                      + Base * Base * (Limb(total, 3) % 2))]

\* A time: the days since 1970-01-01 and, for a time that is not midnight
\* UTC, the milliseconds since that midnight
TimeValue(days, ms) ==
    IF ms = 0 THEN Num(days) ELSE [t |-> "number", v |-> days, ms |-> ms]

\* MakeDate(MakeDay(year, month, day), time) less the offset of the time
\* zone, and TimeClip: MakeDay has a day for the years up to 1,000,000 on
\* either side of 0, a day has 86,400,000 ms, and TimeClip leaves
\* 100,000,000 days on either side of 1970
MakeDate(date, time, zone) ==
    LET ms == time.ms - (zone.seconds % 86400) * 1000
        days == DaysFromCivil(date.year, date.month, 1) + date.day - 1
                    - zone.seconds \div 86400 + ms \div 86400000
    IN  IF date.year < -1000000 \/ date.year > 1000000 THEN NaN
        ELSE IF days < -100000000 \/ days > 100000000
                \/ (days = 100000000 /\ ms % 86400000 # 0) THEN NaN
        ELSE TimeValue(days, ms % 86400000)

\* The time the composers write, NaN when one of them has no value
WriteDate(day, time, zone) ==
    IF ~day.ok \/ ~time.ok \/ ~zone.ok THEN NaN ELSE MakeDate(day, time, zone)

\* The time of what the parser has read
WriteParsed(p) ==
    IF ~p.ok THEN NaN
    ELSE TheOne({WriteDate(day, time, zone) :
                     day \in {DayComposerWrite(p)},
                     time \in {TimeComposerWrite(p)},
                     zone \in {TimeZoneComposerWrite(p)}})

\* DateParser::Parse and the time of its output
ParseTokens(tokens) ==
    TheOne({WriteParsed(p) :
                p \in {ParseLegacy(tokens, start) :
                           start \in {ParseES5DateTime(tokens)}}})

\* Date.parse of a string
DateParse(s) == TheOne({ParseTokens(tokens) : tokens \in {Scan(s, 1)}})

\* n in decimal, with zeros in front up to the given width
RECURSIVE Padded(_, _)
Padded(n, width) ==
    IF width = 0 THEN ""
    ELSE Padded(n \div 10, width - 1) \o Digit(n % 10)

\* date.toISOString().split('T')[0] for a date of the years 0 to 9999
formatDate(days) ==
    LET c == CivilFromDays(days)
    IN  Padded(c.y, 4) \o "-" \o Padded(c.m, 2) \o "-" \o Padded(c.d, 2)

\* new Date(x).getTime()
DateGetTime(x) == CASE x.t = "string" /\ "time" \in DOMAIN x -> Num(x.time)
                    [] x.t = "string" -> DateParse(x.v)
                    [] x.t = "number" -> x
                    [] x.t = "null"   -> Num(0)
                    [] OTHER          -> NaN

\* The milliseconds since midnight of a time
MsOf(x) == IF "ms" \in DOMAIN x THEN x.ms ELSE 0

\* a < b and a > b on two numbers (false when either is NaN) or two strings
Less(a, b) ==
    \/ /\ a.t = "number" /\ b.t = "number"
       /\ \/ a.v < b.v
          \/ a.v = b.v /\ MsOf(a) < MsOf(b)
    \/ a.t = "string" /\ b.t = "string" /\ StringLess(a.v, b.v)
Greater(a, b) == Less(b, a)

(***************************************************************************)
(* A campaign of the campaign-stats response                               *)
(***************************************************************************)
Campaign(name, status, contacted, replied, positive, created) ==
    [t |-> "object", camp_name |-> name, status |-> status,
     lead_contacted_count |-> contacted, replied_count |-> replied,
     positive_reply_count |-> positive, created_at |-> created]

\* A response body that is no array (an object such as {error: '...'}).  The
\* collections of this model are sequences, so such a body is kept as the
\* sequence of the one object, tagged; Array.isArray tells the two apart.
NotAnArray(message) == <<[t |-> "object", array |-> FALSE, error |-> Str(message)]>>

\* Array.isArray(data)
IsArray(data) == ~(Len(data) = 1 /\ "array" \in DOMAIN data[1])

(***************************************************************************)
(* calculateStats (src/src/App.jsx)                                        *)
(***************************************************************************)
InitialStats == [totalContacted |-> 0, totalReplies |-> 0,
                 positiveReplies |-> 0, leadRate |-> "0%"]

\* campaigns.reduce(...) from element i on, acc being the accumulator
RECURSIVE StatsReduce(_, _, _)
StatsReduce(cs, i, acc) ==
    IF i > Len(cs) THEN acc
    ELSE LET contacted       == Or(cs[i].lead_contacted_count, Num(0))
             replies         == Or(cs[i].replied_count, Num(0))
             positiveReplies == Or(cs[i].positive_reply_count, Num(0))
         IN  StatsReduce(cs, i + 1,
                 [totalContacted  |-> acc.totalContacted + contacted.v,
                  totalReplies    |-> acc.totalReplies + replies.v,
                  positiveReplies |-> acc.positiveReplies + positiveReplies.v])

\* ((positiveReplies / totalContacted) * 100).toFixed(1) + '%'
LeadRateOf(positiveReplies, totalContacted) ==
    toFixed1(FMul(FDiv(FromInt(positiveReplies), FromInt(totalContacted)),
                  FromInt(100))) \o "%"

\* calculateStats with the replies summed from positive_reply_count
CalculateStatsRepliesMixed(cs) ==
    LET acc == StatsReduce(cs, 1, [totalContacted |-> 0, totalReplies |-> 0,
                                   positiveReplies |-> 0])
    IN  [totalContacted  |-> acc.totalContacted,
         totalReplies    |-> acc.positiveReplies,
         positiveReplies |-> acc.positiveReplies,
         leadRate        |-> IF acc.totalContacted > 0
                             THEN LeadRateOf(acc.positiveReplies, acc.totalContacted)
                             ELSE "0%"]

calculateStats(cs) ==
    IF ~IsArray(cs) THEN InitialStats
    ELSE
    LET acc == StatsReduce(cs, 1, [totalContacted |-> 0, totalReplies |-> 0,
                                   positiveReplies |-> 0])
    IN  [totalContacted  |-> acc.totalContacted,
         totalReplies    |-> acc.totalReplies,
         positiveReplies |-> acc.positiveReplies,
         leadRate        |-> IF acc.totalContacted > 0
                             THEN LeadRateOf(acc.positiveReplies, acc.totalContacted)
                             ELSE "0%"]

(***************************************************************************)
(* The Dashboard component's statistics (src/unnamed/part_002)             *)
(***************************************************************************)
\* list.reduce((sum, camp) => sum + (camp[field] || 0), 0), from element i
RECURSIVE ReduceSum(_, _, _, _)
ReduceSum(list, field, i, sum) ==
    IF i > Len(list) THEN sum
    ELSE ReduceSum(list, field, i + 1, sum + Or(list[i][field], Num(0)).v)

\* calculateChange with a guard that lets a zero previous value through: the
\* change is then taken against a previous value of one
CalculateChangeUnguarded(current, previous) ==
    IF previous.man = <<>>
    THEN Str(toFixed1(FMul(FSub(current, FromInt(1)), FromInt(100))))
    ELSE Str(toFixed1(FMul(FDiv(FSub(current, previous), previous), FromInt(100))))

\* The percentage change from previous to current, two doubles: the number 0
\* when previous is falsy, else a string with one decimal
calculateChange(current, previous) ==
    IF previous.man = <<>> THEN Num(0)
    ELSE Str(toFixed1(FMul(FDiv(FSub(current, previous), previous), FromInt(100))))

\* total ? (part / total * 100) : 0
RateOf(part, total) ==
    IF total # 0 THEN FMul(FDiv(FromInt(part), FromInt(total)), FromInt(100))
    ELSE FZero

\* The four changes the stats memo computes from the two collections: a
\* change is the number 0 or a string with one decimal.  leadRateChange is
\* computed and used nowhere.
DashboardChanges(cs, prev) ==
    LET totalContacted      == ReduceSum(cs, "lead_contacted_count", 1, 0)
        totalReplies        == ReduceSum(cs, "replied_count", 1, 0)
        positiveReplies     == ReduceSum(cs, "positive_reply_count", 1, 0)
        prevTotalContacted  == ReduceSum(prev, "lead_contacted_count", 1, 0)
        prevTotalReplies    == ReduceSum(prev, "replied_count", 1, 0)
        prevPositiveReplies == ReduceSum(prev, "positive_reply_count", 1, 0)
    IN  [contactedChange |->
             calculateChange(FromInt(totalContacted), FromInt(prevTotalContacted)),
         replyRateChange |->
             calculateChange(RateOf(totalReplies, totalContacted),
                             RateOf(prevTotalReplies, prevTotalContacted)),
         leadRateChange  |->
             calculateChange(RateOf(positiveReplies, totalContacted),
                             RateOf(prevPositiveReplies, prevTotalContacted)),
         positiveRepliesChange |->
             calculateChange(FromInt(positiveReplies), FromInt(prevPositiveReplies))]

\* `${change}%` of a string
formatChange(change) == change \o "%"

\* value >= 0 of a change: the number 0, or the number its string reads as
\* ("-0.0" is -0, which is >= 0)
NotNegative(value) ==
    value.t = "number" \/ SubSeq(value.v, 1, 1) # "-" \/ value.v = "-0.0"

\* String(Math.abs(value)) of a change: the digits without the sign, and
\* without the decimal when it is 0 ("25.0" is 25, "-12.5" is 12.5)
AbsText(value) ==
    IF value.t = "number" THEN "0"
    ELSE LET unsigned == IF SubSeq(value.v, 1, 1) = "-"
                         THEN SubSeq(value.v, 2, Len(value.v)) ELSE value.v
         IN  IF SubSeq(unsigned, Len(unsigned), Len(unsigned)) = "0"
             THEN SubSeq(unsigned, 1, Len(unsigned) - 2)
             ELSE unsigned

\* The change as 'up' or 'down' text in a coloured span; the code passes the
\* change for both of its parameters and reads the second only
formatChangeWithColor(change, value) ==
    "<span style=\"color: "
        \o (IF NotNegative(value) THEN "#22c55e" ELSE "#ef4444") \o "\">"
        \o (IF NotNegative(value) THEN "up" ELSE "down") \o " "
        \o formatChange(AbsText(value)) \o "</span>"

\* The bullet of a summary line, U+2022, by its escape: the strings of this
\* module are ASCII
Bullet == "\\u2022"

\* The summary text of the memo: a heading and one line for three of the
\* four changes
SummaryText(changes4) ==
    "Compared to previous period:" \o "\n"
        \o Bullet \o " Contacted: "
        \o formatChangeWithColor(changes4.contactedChange, changes4.contactedChange)
        \o "\n" \o Bullet \o " Reply Rate: "
        \o formatChangeWithColor(changes4.replyRateChange, changes4.replyRateChange)
        \o "\n" \o Bullet \o " Positive Replies: "
        \o formatChangeWithColor(changes4.positiveRepliesChange,
                                 changes4.positiveRepliesChange)

\* The stats memo
DashboardStats(cs, prev) ==
    LET totalContacted   == ReduceSum(cs, "lead_contacted_count", 1, 0)
        totalReplies     == ReduceSum(cs, "replied_count", 1, 0)
        positiveReplies  == ReduceSum(cs, "positive_reply_count", 1, 0)
        currentReplyRate == RateOf(totalReplies, totalContacted)
        currentLeadRate  == RateOf(positiveReplies, totalContacted)
    IN  [totalContacted  |-> totalContacted,
         totalReplies    |-> totalReplies,
         positiveReplies |-> positiveReplies,
         leadRate        |-> toFixed1(currentLeadRate) \o "%",
         replyRate       |-> toFixed1(currentReplyRate) \o "%",
         summaryText     |-> SummaryText(DashboardChanges(cs, prev))]

(***************************************************************************)
(* State.  One tuple of variables serves the components: a component is a  *)
(* specification of its own over it (Init and Next of its own).            *)
(*                                                                         *)
(*   pc                 where the run is: "constructed" and "mounted" for  *)
(*                      a component; "input" and the name of the function  *)
(*                      applied, for the statistics functions              *)
(*   campaigns ... stats  the useState cells of the component              *)
(*   saved              localStorage's 'selectedWorkspace'                 *)
(*   timers             the armed setTimeout timers, each with the values  *)
(*                      its callback closed over and the time left         *)
(*   effectTimer        the timer the cleanup of the last run of the fetch *)
(*                      effect clears (0: that run returned no cleanup)    *)
(*   inflight           the requests sent and not yet answered             *)
(*   timerSeq, requestSeq  the ids given to the last timer and request     *)
(*   changes            the number of user events so far                   *)
(*   result             what the function applied has returned, for the    *)
(*                      functions applied on their own (undefined before)  *)
(*   selectedTeam       the team chosen in the Dashboard ('ALL' elsewhere)  *)
(*   workspaceName      the Dashboard's route parameter: the name in the   *)
(*                      URL, undefined on '/' (and elsewhere)               *)
(***************************************************************************)
VARIABLES pc, campaigns, previousCampaigns, workspaces, selectedWorkspace,
          loading, error, statusFilter, dateRange, sortBy, sortOrder, stats,
          saved, timers, effectTimer, inflight, timerSeq, requestSeq, changes,
          result, selectedTeam, workspaceName

vars == <<pc, campaigns, previousCampaigns, workspaces, selectedWorkspace,
          loading, error, statusFilter, dateRange, sortBy, sortOrder, stats,
          saved, timers, effectTimer, inflight, timerSeq, requestSeq, changes,
          result, selectedTeam, workspaceName>>

\* The dates of the model, as times
DateValues == {10, 20, 30}

\* Nothing armed, nothing sent, no user event yet
Idle == /\ timers = {} /\ effectTimer = 0 /\ inflight = {}
        /\ timerSeq = 0 /\ requestSeq = 0 /\ changes = 0

(***************************************************************************)
(* The statistics functions on their own: every collection of up to MaxLen *)
(* campaigns (up to MaxPrevLen for the previous period) is an input.       *)
(***************************************************************************)
MaxLen == 2
MaxPrevLen == 1

SeqsUpTo(S, n) == UNION {[1..k -> S] : k \in 0..n}

StatCampaigns ==
    { Campaign(Str("A"), Str("ACTIVE"), Num(100), Num(10), Num(25), DateString("d10", 10)),
      Campaign(Str("Z"), Str("ACTIVE"), Num(0), Num(0), Num(0), DateString("d20", 20)),
      Campaign(Str("B"), Str("COMPLETED"), Num(80), Undefined, Num(23), DateString("d30", 30)),
      Campaign(Str("M"), Str("ACTIVE"), Undefined, Null, Undefined, DateString("d10", 10)),
      Campaign(Str("D"), Str("ACTIVE"), Num(50), Num(4), Null, DateString("d20", 20)) }

InitStats ==
    /\ pc = "input"
    /\ campaigns \in SeqsUpTo(StatCampaigns, MaxLen)
    /\ previousCampaigns \in SeqsUpTo(StatCampaigns, MaxPrevLen)
    /\ workspaces = <<>> /\ selectedWorkspace = Null /\ saved = Null
    /\ loading = TRUE /\ error = Null /\ statusFilter = "ALL"
    /\ dateRange = [startDate |-> 10, endDate |-> 30]
    /\ sortBy = "created_at" /\ sortOrder = "desc"
    /\ stats = InitialStats
    /\ result = Undefined
    /\ selectedTeam = "ALL" /\ workspaceName = Undefined
    /\ Idle

ApplyCalculateStats ==
    /\ pc = "input"
    /\ pc' = "calculateStats"
    /\ stats' = calculateStats(campaigns)
    /\ UNCHANGED <<campaigns, previousCampaigns, workspaces, selectedWorkspace,
                   loading, error, statusFilter, dateRange, sortBy, sortOrder,
                   saved, timers, effectTimer, inflight, timerSeq, requestSeq,
                   changes>>
    /\ UNCHANGED <<result, selectedTeam, workspaceName>>

ApplyDashboardStats ==
    /\ pc = "input"
    /\ pc' = "DashboardStats"
    /\ stats' = DashboardStats(campaigns, previousCampaigns)
    /\ UNCHANGED <<campaigns, previousCampaigns, workspaces, selectedWorkspace,
                   loading, error, statusFilter, dateRange, sortBy, sortOrder,
                   saved, timers, effectTimer, inflight, timerSeq, requestSeq,
                   changes>>
    /\ UNCHANGED <<result, selectedTeam, workspaceName>>

NextStats == ApplyCalculateStats \/ ApplyDashboardStats

SpecStats == InitStats /\ [][NextStats]_vars

\* The sum of a count over a collection, a count that is no number being 0
RECURSIVE CountSum(_, _)
CountSum(cs, field) ==
    IF cs = <<>> THEN 0
    ELSE (IF Head(cs)[field].t = "number" THEN Head(cs)[field].v ELSE 0)
             + CountSum(Tail(cs), field)

\* part / total * 100 rounded half away from zero to one decimal, in exact
\* arithmetic (part >= 0, total > 0), as a string
RoundedPercent(part, total) ==
    LET tenths == (2000 * part + total) \div (2 * total)
    IN  NatToString(tenths \div 10) \o "." \o Digit(tenths % 10)

\* C7: a collection whose summed lead_contacted_count is 0 has the leadRate
\* "0%", in calculateStats and in the Dashboard's statistics
C7_ZeroContactedGivesZeroPercent ==
    (pc \in {"calculateStats", "DashboardStats"}
        /\ CountSum(campaigns, "lead_contacted_count") = 0)
    => stats.leadRate = "0%"

\* C8: calculateStats returns the sums of the three counts over the campaigns
\* of its input, a missing count contributing 0, and {0, 0, 0, "0%"} for
\* the empty collection
C8_AggregateSumsCounts ==
    pc = "calculateStats"
    => /\ stats.totalContacted = CountSum(campaigns, "lead_contacted_count")
       /\ stats.totalReplies = CountSum(campaigns, "replied_count")
       /\ stats.positiveReplies = CountSum(campaigns, "positive_reply_count")
       /\ campaigns = <<>> =>
              stats = [totalContacted |-> 0, totalReplies |-> 0,
                       positiveReplies |-> 0, leadRate |-> "0%"]

\* C8 witness: calculateStats has summed two campaigns, one of them without
\* its counts
C8_Witness ==
    /\ pc = "calculateStats"
    /\ Len(campaigns) = 2
    /\ \E i \in 1..2 : campaigns[i].lead_contacted_count = Undefined
                       /\ campaigns[i].replied_count = Null
    /\ stats.totalContacted = 100 /\ stats.totalReplies = 10
    /\ stats.positiveReplies = 25

\* C9: with totalContacted > 0, leadRate is positiveReplies / totalContacted
\* * 100 rounded half away from zero to one decimal, followed by "%"
C9_LeadRateRoundsHalfAway ==
    (pc = "calculateStats" /\ CountSum(campaigns, "lead_contacted_count") > 0)
    => stats.leadRate =
           RoundedPercent(CountSum(campaigns, "positive_reply_count"),
                          CountSum(campaigns, "lead_contacted_count")) \o "%"

\* C10: each of the four period-over-period changes is 0 when its previous
\* value is 0 (a previous rate is 0 when the previous contacted count or the
\* previous count of the rate is 0), and the summary text shows such a change
\* of contacted, reply rate and positive replies as a change of 0
C10_ZeroPreviousGivesZeroChange ==
    pc = "DashboardStats"
    => LET prevContacted == CountSum(previousCampaigns, "lead_contacted_count")
           prevReplies   == CountSum(previousCampaigns, "replied_count")
           prevPositive  == CountSum(previousCampaigns, "positive_reply_count")
           memo          == DashboardChanges(campaigns, previousCampaigns)
           zeroed        ==
               [contactedChange |->
                    IF prevContacted = 0 THEN Num(0) ELSE memo.contactedChange,
                replyRateChange |->
                    IF prevContacted = 0 \/ prevReplies = 0
                    THEN Num(0) ELSE memo.replyRateChange,
                positiveRepliesChange |->
                    IF prevPositive = 0 THEN Num(0) ELSE memo.positiveRepliesChange]
       IN  /\ prevContacted = 0 => memo.contactedChange = Num(0)
           /\ (prevContacted = 0 \/ prevReplies = 0) => memo.replyRateChange = Num(0)
           /\ (prevContacted = 0 \/ prevPositive = 0) => memo.leadRateChange = Num(0)
           /\ prevPositive = 0 => memo.positiveRepliesChange = Num(0)
           /\ stats.summaryText = SummaryText(zeroed)

\* C10 witness: the summary is computed for a current period with 50
\* contacted against a previous period with campaigns and none contacted
\* (three changes of 0), and against a previous period with 80 contacted and
\* no reply (a reply rate change of 0 between two changes that are not)
C10_Witness ==
    /\ pc = "DashboardStats"
    /\ CountSum(campaigns, "lead_contacted_count") = 50
    /\ \/ /\ previousCampaigns # <<>>
          /\ CountSum(previousCampaigns, "lead_contacted_count") = 0
          /\ stats.summaryText =
                 SummaryText([contactedChange |-> Num(0), replyRateChange |-> Num(0),
                              positiveRepliesChange |-> Num(0)])
       \/ /\ CountSum(previousCampaigns, "lead_contacted_count") = 80
          /\ stats.summaryText =
                 SummaryText([contactedChange |-> Str("-37.5"),
                              replyRateChange |-> Num(0),
                              positiveRepliesChange |-> Str("-100.0")])

(***************************************************************************)
(* sortCampaigns (src/src/App.jsx, src/src/ReportingApp.jsx): a copy of    *)
(* the array, sorted by Array.prototype.sort with the comparator of the    *)
(* render's sortBy and sortOrder.                                          *)
(***************************************************************************)
\* The columns whose headers call handleSort, of the ten of the table
SortFields == {"camp_name", "lead_contacted_count", "created_at"}

\* The comparator of sortCampaigns: < 0 when a goes first.  App.jsx (lines
\* 255-275) and the Dashboard compute the same sign with a multiplication.
\* The two values of a comparison are of one type in this model, or one of
\* them is null, undefined or NaN.
CompareValues(compareA, compareB, order) ==
    IF compareA.t \in {"null", "undefined"} THEN 1
    ELSE IF compareB.t \in {"null", "undefined"} THEN -1
    ELSE IF order = "asc"
         THEN (IF Greater(compareA, compareB) THEN 1
               ELSE IF Less(compareA, compareB) THEN -1 ELSE 0)
         ELSE (IF Less(compareA, compareB) THEN 1
               ELSE IF Greater(compareA, compareB) THEN -1 ELSE 0)

\* compareA for the value of a's sort field, b's being other
CompareValue(value, other, by) ==
    IF by = "created_at" THEN DateGetTime(value)
    ELSE IF value.t = "string" /\ other.t = "string" THEN Str(toLowerCase(value.v))
    ELSE value

CompareCampaigns(a, b, by, order) ==
    TheOne({CompareValues(compareA, compareB, order) :
                compareA \in {CompareValue(Get(a, by), Get(b, by), by)},
                compareB \in {CompareValue(Get(b, by), Get(a, by), by)}})

\* Array.prototype.sort is V8's TimSort, which sorts an array of fewer than
\* 64 elements as one run: the run the array begins with is found (and
\* reversed when it descends strictly), and the elements after it are put
\* in place by binary insertion.
\* The last index of the run that begins data, idx being the next candidate
RECURSIVE RunEnd(_, _, _, _, _)
RunEnd(data, idx, descending, by, order) ==
    IF idx > Len(data) THEN Len(data)
    ELSE IF descending = (CompareCampaigns(data[idx], data[idx - 1], by, order) < 0)
         THEN RunEnd(data, idx + 1, descending, by, order)
         ELSE idx - 1

RECURSIVE Reverse(_)
Reverse(run) == IF run = <<>> THEN <<>> ELSE Reverse(Tail(run)) \o <<Head(run)>>

\* The array with its first run, of the given length, reversed when it
\* descends
MakeRun(data, descending, runLength) ==
    [work |-> IF descending
              THEN Reverse(SubSeq(data, 1, runLength))
                       \o SubSeq(data, runLength + 1, Len(data))
              ELSE data,
     runLength |-> runLength]

\* The array with its first run made ascending, and the length of that run
CountAndMakeRun(data, by, order) ==
    IF Len(data) < 2 THEN [work |-> data, runLength |-> Len(data)]
    ELSE MakeRun(data, CompareCampaigns(data[2], data[1], by, order) < 0,
                 RunEnd(data, 3, CompareCampaigns(data[2], data[1], by, order) < 0,
                        by, order))

\* The place of pivot in the sorted run, searched between left and right
RECURSIVE InsertionPoint(_, _, _, _, _, _)
InsertionPoint(run, pivot, left, right, by, order) ==
    IF left >= right THEN left
    ELSE LET mid == left + (right - left) \div 2
         IN  IF CompareCampaigns(pivot, run[mid], by, order) < 0
             THEN InsertionPoint(run, pivot, left, mid, by, order)
             ELSE InsertionPoint(run, pivot, mid + 1, right, by, order)

\* data with its element i moved to the place at
InsertAt(data, i, at) ==
    SubSeq(data, 1, at - 1) \o <<data[i]>> \o SubSeq(data, at, i - 1)
        \o SubSeq(data, i + 1, Len(data))

\* data with its elements from i on inserted into the sorted run before them
RECURSIVE InsertFrom(_, _, _, _)
InsertFrom(data, i, by, order) ==
    IF i > Len(data) THEN data
    ELSE InsertFrom(InsertAt(data, i, InsertionPoint(data, data[i], 1, i, by, order)),
                    i + 1, by, order)

\* The binary insertion sort of what follows the first run
BinaryInsertionSort(run, by, order) ==
    InsertFrom(run.work, run.runLength + 1, by, order)

\* items.sort(comparator): the elements of the array once sorted in place
ArraySort(items, by, order) ==
    BinaryInsertionSort(CountAndMakeRun(items, by, order), by, order)

\* Arrays are objects: a heap is the sequence of the arrays there are, and an
\* array is known by its place in it.
\* A sortCampaigns that sorts the array it is given
SortCampaignsInPlace(heap, data, by, order) ==
    [heap |-> [heap EXCEPT ![data] = ArraySort(heap[data], by, order)],
     returned |-> data]

\* sortCampaigns(data) in a render with the given sortBy and sortOrder: the
\* spread makes a new array of data's elements, which is sorted and returned
sortCampaignsOn(heap, data, by, order) ==
    [heap |-> Append(heap, ArraySort(heap[data], by, order)),
     returned |-> Len(heap) + 1]

\* The elements of the array sortCampaigns returns
sortCampaigns(data, by, order) ==
    sortCampaignsOn(<<data>>, 1, by, order).heap[2]

(***************************************************************************)
(* The App component (src/src/App.jsx)                                     *)
(***************************************************************************)
DebounceMs == 300

\* How far the clock moves in one step
TickSteps == {DebounceMs \div 3, DebounceMs}

\* The most user events in one run
MaxChanges == 3

Workspace(id, name) == [t |-> "object", _id |-> Str(id), name |-> Str(name)]

\* What /api/workspaces may answer, and /api/campaign-stats
WorkspaceLists == { <<>>, <<Workspace("w1", "One"), Workspace("w2", "Two")>> }

Payloads ==
    { <<>>,
      NotAnArray("Service unavailable"),
      <<Campaign(Str("A"), Str("ACTIVE"), Num(100), Num(10), Num(25), DateString("d10", 10))>>,
      <<Campaign(Str("A"), Str("ACTIVE"), Num(100), Num(10), Num(25), DateString("d10", 10)),
        Campaign(Str("B"), Str("COMPLETED"), Num(80), Undefined, Num(23), DateString("d30", 30))>> }

\* An axios error: the response's data.error and data.details (no response
\* at all when both are undefined) and the message
AxiosError(respError, respDetails, message) ==
    [t |-> "object",
     response |-> IF respError = Undefined /\ respDetails = Undefined
                  THEN Undefined
                  ELSE [t |-> "object",
                        data |-> [t |-> "object", error |-> respError,
                                  details |-> respDetails]],
     message |-> message]

Failures ==
    { AxiosError(Str("Invalid workspace"), Str("bad id"), Str("Request failed with status code 400")),
      AxiosError(Str("Server error"), Undefined, Str("Request failed with status code 500")),
      AxiosError(Undefined, Undefined, Str("Network Error")),
      AxiosError(Undefined, Undefined, Undefined) }

\* error.response?.data?.[name]
ResponseData(e, name) ==
    IF e.response.t = "object" THEN e.response.data[name] ELSE Undefined

formatErrorMessage(e) ==
    IF Truthy(ResponseData(e, "error")) /\ Truthy(ResponseData(e, "details"))
    THEN Str(ResponseData(e, "error").v \o ": " \o ResponseData(e, "details").v)
    ELSE Or(Or(ResponseData(e, "error"), e.message),
            Str("An unexpected error occurred"))

InitApp ==
    /\ pc = "constructed"
    /\ campaigns = <<>> /\ previousCampaigns = <<>> /\ workspaces = <<>>
    /\ saved \in {Null, Workspace("w1", "One")}
    /\ selectedWorkspace = saved
    /\ loading = TRUE /\ error = Null /\ statusFilter = "ALL"
    /\ dateRange = [startDate |-> 10, endDate |-> 30]
    /\ sortBy = "created_at" /\ sortOrder = "desc"
    /\ stats = InitialStats
    /\ result = Undefined
    /\ selectedTeam = "ALL" /\ workspaceName = Undefined
    /\ Idle

\* The component renders its controls: neither 'Loading...' nor the error
Rendered == pc = "mounted" /\ ~loading /\ ~Truthy(error)

\* A cleanup that leaves the timer armed
ClearTimeoutForgotten(ts, id) == ts

\* clearTimeout(id) on the armed timers ts
clearTimeout(ts, id) == {tm \in ts : tm.id # id}

\* A run of the campaign fetch effect in a render with the given values: the
\* cleanup of the previous run, then the body (without a workspace the
\* campaigns are emptied and loading ends; else fetchData is armed)
CampaignEffect(ws, status, range) ==
    LET cleared == clearTimeout(timers, effectTimer)
    IN  IF ~Truthy(ws)
        THEN /\ campaigns' = <<>>
             /\ loading' = FALSE
             /\ timers' = cleared
             /\ effectTimer' = 0
             /\ timerSeq' = timerSeq
        ELSE /\ timers' = cleared \cup
                   {[id |-> timerSeq + 1, remaining |-> DebounceMs,
                     selectedWorkspace |-> ws, statusFilter |-> status,
                     dateRange |-> range]}
             /\ effectTimer' = timerSeq + 1
             /\ timerSeq' = timerSeq + 1
             /\ UNCHANGED <<campaigns, loading>>

\* The first render's effects: fetchWorkspaces is sent, the fetch effect runs
Mount ==
    /\ pc = "constructed"
    /\ pc' = "mounted"
    /\ requestSeq' = requestSeq + 1
    /\ inflight' = inflight \cup
           {[id |-> requestSeq + 1, url |-> "/api/workspaces",
             selectedWorkspace |-> selectedWorkspace]}
    /\ CampaignEffect(selectedWorkspace, statusFilter, dateRange)
    /\ UNCHANGED <<previousCampaigns, workspaces, selectedWorkspace, error,
                   statusFilter, dateRange, sortBy, sortOrder, stats, saved,
                   changes>>
    /\ UNCHANGED <<result, selectedTeam, workspaceName>>

\* fetchWorkspaces, from the response on
WorkspacesResolve(r, data) ==
    /\ r \in inflight /\ r.url = "/api/workspaces"
    /\ inflight' = inflight \ {r}
    /\ workspaces' = data
    /\ IF ~Truthy(r.selectedWorkspace) /\ Len(data) > 0
       THEN /\ selectedWorkspace' = data[1]
            /\ saved' = data[1]
            /\ CampaignEffect(data[1], statusFilter, dateRange)
       ELSE UNCHANGED <<selectedWorkspace, saved, campaigns, loading, timers,
                        effectTimer, timerSeq>>
    /\ UNCHANGED <<pc, previousCampaigns, error, statusFilter, dateRange,
                   sortBy, sortOrder, stats, requestSeq, changes>>
    /\ UNCHANGED <<result, selectedTeam, workspaceName>>

\* fetchWorkspaces, from the rejection on
WorkspacesFail(r) ==
    /\ r \in inflight /\ r.url = "/api/workspaces"
    /\ inflight' = inflight \ {r}
    /\ error' = Str("Failed to fetch workspaces")
    /\ UNCHANGED <<pc, campaigns, previousCampaigns, workspaces,
                   selectedWorkspace, loading, statusFilter, dateRange, sortBy,
                   sortOrder, stats, saved, timers, effectTimer, timerSeq,
                   requestSeq, changes>>
    /\ UNCHANGED <<result, selectedTeam, workspaceName>>

\* The option the workspace select shows: the one whose value is
\* selectedWorkspace, the first one when there is none
ShownWorkspace ==
    IF \E i \in 1..Len(workspaces) : workspaces[i]._id = selectedWorkspace
    THEN selectedWorkspace
    ELSE workspaces[1]._id

\* The user picks another workspace: the select hands over the option's value
ChangeWorkspace(id) ==
    /\ Rendered /\ changes < MaxChanges
    /\ \E i \in 1..Len(workspaces) : workspaces[i]._id = id
    /\ id # ShownWorkspace
    /\ changes' = changes + 1
    /\ selectedWorkspace' = id
    /\ CampaignEffect(id, statusFilter, dateRange)
    /\ UNCHANGED <<pc, previousCampaigns, workspaces, error, statusFilter,
                   dateRange, sortBy, sortOrder, stats, saved, inflight,
                   requestSeq>>
    /\ UNCHANGED <<result, selectedTeam, workspaceName>>

StatusOptions == {"ALL", "ACTIVE", "COMPLETED"}

\* The user picks another status
ChangeStatus(status) ==
    /\ Rendered /\ changes < MaxChanges
    /\ status \in StatusOptions /\ status # statusFilter
    /\ changes' = changes + 1
    /\ statusFilter' = status
    /\ CampaignEffect(selectedWorkspace, status, dateRange)
    /\ UNCHANGED <<pc, previousCampaigns, workspaces, selectedWorkspace, error,
                   dateRange, sortBy, sortOrder, stats, saved, inflight,
                   requestSeq>>
    /\ UNCHANGED <<result, selectedTeam, workspaceName>>

\* What a date input hands over: the string of a date of the model, and ''
\* when the user has emptied it
DateInputValues ==
    {DateString("d" \o NatToString(date), date) : date \in DateValues}
        \cup {Str("")}

\* The user changes the start or the end date: the range gets new
\* Date(e.target.value), held here by its time.  The Date of an emptied
\* input is invalid (its time is NaN): the render that follows throws a
\* RangeError at toISOString, which unmounts the component (its timer is
\* cleared, and no later answer changes anything).
ChangeDate(which, value) ==
    /\ Rendered /\ changes < MaxChanges
    /\ which \in {"startDate", "endDate"}
    /\ value \in DateInputValues
    /\ changes' = changes + 1
    /\ \E time \in {DateGetTime(value)} :
        /\ time # Num(dateRange[which])
        /\ IF time.t = "number"
           THEN /\ dateRange' = [dateRange EXCEPT ![which] = time.v]
                /\ CampaignEffect(selectedWorkspace, statusFilter, dateRange')
                /\ UNCHANGED <<pc, inflight>>
           ELSE /\ dateRange' = [dateRange EXCEPT ![which] = NaN]
                /\ pc' = "crashed"
                /\ inflight' = {}
                /\ timers' = {}
                /\ effectTimer' = 0
                /\ UNCHANGED <<campaigns, loading, timerSeq>>
    /\ UNCHANGED <<previousCampaigns, workspaces, selectedWorkspace, error,
                   statusFilter, sortBy, sortOrder, stats, saved, requestSeq>>
    /\ UNCHANGED <<result, selectedTeam, workspaceName>>

\* Time passes, up to the moment the next timer is due
Tick(ms) ==
    /\ pc = "mounted"
    /\ timers # {}
    /\ \A tm \in timers : tm.remaining >= ms
    /\ timers' = {[tm EXCEPT !.remaining = @ - ms] : tm \in timers}
    /\ UNCHANGED <<pc, campaigns, previousCampaigns, workspaces,
                   selectedWorkspace, loading, error, statusFilter, dateRange,
                   sortBy, sortOrder, stats, saved, effectTimer, inflight,
                   timerSeq, requestSeq, changes>>
    /\ UNCHANGED <<result, selectedTeam, workspaceName>>

\* A due timer runs fetchData, up to the request: the values are those of the
\* render that armed the timer
TimerFire(tm) ==
    /\ tm \in timers /\ tm.remaining = 0
    /\ timers' = timers \ {tm}
    /\ loading' = TRUE
    /\ error' = Null
    /\ requestSeq' = requestSeq + 1
    /\ inflight' = inflight \cup
           {[id |-> requestSeq + 1, url |-> "/api/campaign-stats",
             params |->
                 [workspace_id |-> Get(tm.selectedWorkspace, "_id"),
                  status |-> IF tm.statusFilter = "ALL" THEN Undefined
                             ELSE Str(tm.statusFilter),
                  start_date |-> tm.dateRange.startDate,
                  end_date |-> tm.dateRange.endDate]]}
    /\ UNCHANGED <<pc, campaigns, previousCampaigns, workspaces,
                   selectedWorkspace, statusFilter, dateRange, sortBy,
                   sortOrder, stats, saved, effectTimer, timerSeq, changes>>
    /\ UNCHANGED <<result, selectedTeam, workspaceName>>

\* fetchData, from the response on.  No test is made of the body: one that
\* is no array is stored as the campaigns, and the render that follows throws
\* at campaigns.map, which unmounts the component (its timer is cleared, and
\* no later answer changes anything)
CampaignsResolve(r, data) ==
    /\ r \in inflight /\ r.url = "/api/campaign-stats"
    /\ campaigns' = data
    /\ error' = Null
    /\ loading' = FALSE
    /\ IF IsArray(data)
       THEN /\ inflight' = inflight \ {r}
            /\ UNCHANGED <<pc, timers, effectTimer>>
       ELSE /\ pc' = "crashed"
            /\ inflight' = {}
            /\ timers' = {}
            /\ effectTimer' = 0
    /\ UNCHANGED <<previousCampaigns, workspaces, selectedWorkspace,
                   statusFilter, dateRange, sortBy, sortOrder, stats, saved,
                   timerSeq, requestSeq, changes>>
    /\ UNCHANGED <<result, selectedTeam, workspaceName>>

\* fetchData, from the rejection on
CampaignsFail(r, e) ==
    /\ r \in inflight /\ r.url = "/api/campaign-stats"
    /\ inflight' = inflight \ {r}
    /\ error' = formatErrorMessage(e)
    /\ campaigns' = <<>>
    /\ loading' = FALSE
    /\ UNCHANGED <<pc, previousCampaigns, workspaces, selectedWorkspace,
                   statusFilter, dateRange, sortBy, sortOrder, stats, saved,
                   timers, effectTimer, timerSeq, requestSeq, changes>>
    /\ UNCHANGED <<result, selectedTeam, workspaceName>>

\* A handleSort that sets 'desc' whatever the active column is
NewOrderAlwaysDesc(field, prevSort, order) == "desc"

\* The order handleSort sets with the column given: field === prevSort &&
\* sortOrder === 'desc' ? 'asc' : 'desc'
NewOrder(field, prevSort, order) ==
    IF field = prevSort /\ order = "desc" THEN "asc" ELSE "desc"

\* handleSort(field), a click on a column header, which the render shows with
\* the table, when there are campaigns: the field and the order are set, and
\* the campaigns are sorted by the sortCampaigns of the render clicked in,
\* with the sort state that render has
HandleSort(field) ==
    /\ Rendered /\ changes < MaxChanges
    /\ Len(campaigns) # 0
    /\ changes' = changes + 1
    /\ sortOrder' = NewOrder(field, sortBy, sortOrder)
    /\ sortBy' = field
    /\ campaigns' = sortCampaigns(campaigns, sortBy, sortOrder)
    /\ UNCHANGED <<pc, previousCampaigns, workspaces, selectedWorkspace,
                   loading, error, statusFilter, dateRange, stats, saved,
                   timers, effectTimer, inflight, timerSeq, requestSeq>>
    /\ UNCHANGED <<result, selectedTeam, workspaceName>>

WorkspaceIds == {Str("w1"), Str("w2")}

Next ==
    \/ Mount
    \/ \E r \in inflight : \E data \in WorkspaceLists : WorkspacesResolve(r, data)
    \/ \E r \in inflight : WorkspacesFail(r)
    \/ \E id \in WorkspaceIds : ChangeWorkspace(id)
    \/ \E status \in StatusOptions : ChangeStatus(status)
    \/ \E which \in {"startDate", "endDate"} : \E value \in DateInputValues :
           ChangeDate(which, value)
    \/ \E ms \in TickSteps : Tick(ms)
    \/ \E tm \in timers : TimerFire(tm)
    \/ \E r \in inflight : \E data \in Payloads : CampaignsResolve(r, data)
    \/ \E r \in inflight : \E e \in Failures : CampaignsFail(r, e)
    \/ \E field \in SortFields : HandleSort(field)

Spec == InitApp /\ [][Next]_vars

\* The campaign-stats requests not yet answered
CampaignRequests == {r \in inflight : r.url = "/api/campaign-stats"}

\* The id of the workspace the component has selected
SelectedWorkspaceId ==
    IF selectedWorkspace.t = "object" THEN selectedWorkspace._id
    ELSE selectedWorkspace

\* C2: a burst of changes gives one request (never a timer and a request, or
\* two of either, pending together), the armed timer is the last change's,
\* and the request carries the workspace, status and dates of the last change
C2_BurstGivesOneRequestOfLastChange ==
    /\ Cardinality(timers) + Cardinality(CampaignRequests) <= 1
    /\ \A tm \in timers :
           /\ tm.selectedWorkspace = selectedWorkspace
           /\ tm.statusFilter = statusFilter
           /\ tm.dateRange = dateRange
    /\ \A r \in CampaignRequests :
           r.params = [workspace_id |-> SelectedWorkspaceId,
                       status |-> IF statusFilter = "ALL" THEN Undefined
                                  ELSE Str(statusFilter),
                       start_date |-> dateRange.startDate,
                       end_date |-> dateRange.endDate]

\* C3: at most one debounce timer is armed
C3_AtMostOneTimerArmed == Cardinality(timers) <= 1

\* C3 witness: a change has cancelled the timer of the change before it,
\* which never fired, and armed the one timer there is
C3_Witness ==
    /\ changes >= 2
    /\ timerSeq >= 3
    /\ CampaignRequests = {} /\ requestSeq = 1
    /\ \E tm \in timers : tm.id = timerSeq /\ tm.remaining = DebounceMs
    /\ Cardinality(timers) = 1

\* C4: a campaign-stats failure while campaigns of an earlier success are
\* displayed leaves campaigns and stats as they were and sets the error
C4_FailedRefreshKeepsView ==
    [][((\E r \in inflight : \E e \in Failures : CampaignsFail(r, e))
            /\ campaigns # <<>>)
        => (campaigns' = campaigns /\ stats' = stats /\ Truthy(error'))]_vars

\* C5: once the first load has failed (no workspace saved, the workspaces
\* request answered with a failure or with no workspace) and nothing is
\* pending, the error is shown: error is set and loading is false
C5_FirstLoadFailureShowsError ==
    (pc = "mounted" /\ saved = Null /\ workspaces = <<>>
        /\ inflight = {} /\ timers = {})
    => (Truthy(error) /\ ~loading)

\* C6: the stats are the aggregate of the campaigns a successful response
\* has put on display
C6_StatsAggregateDisplayedCampaigns ==
    (pc = "mounted" /\ campaigns # <<>>) => stats = calculateStats(campaigns)

\* C25: when the workspaces request is answered with no workspace, the error
\* is set and no workspace gets selected
C25_NoWorkspacesIsAnError ==
    [][\A r \in inflight :
           WorkspacesResolve(r, <<>>)
               => (Truthy(error') /\ selectedWorkspace' = selectedWorkspace)]_vars

\* C23: the answer to a campaign-stats request whose body is no array sets
\* the error and changes neither the campaigns nor the stats
C23_NonArrayBodyRejected ==
    [][\A r \in inflight : \A data \in Payloads :
           (CampaignsResolve(r, data) /\ ~IsArray(data))
               => (Truthy(error') /\ campaigns' = campaigns /\ stats' = stats)]_vars

(***************************************************************************)
(* The App component of src/src/ReportingApp.jsx: no debounce, the fetch   *)
(* effect sends the request at once, and the controls stay rendered while  *)
(* a request is out once campaigns are on display.                         *)
(***************************************************************************)
InitReporting ==
    /\ pc = "constructed"
    /\ campaigns = <<>> /\ previousCampaigns = <<>> /\ workspaces = <<>>
    /\ saved = Null
    /\ selectedWorkspace = Str("")
    /\ loading = TRUE /\ error = Null /\ statusFilter = "ALL"
    /\ dateRange = [startDate |-> 20, endDate |-> 30]
    /\ sortBy = "created_at" /\ sortOrder = "desc"
    /\ stats = InitialStats
    /\ result = Undefined
    /\ selectedTeam = "ALL" /\ workspaceName = Undefined
    /\ Idle

\* The request fetchCampaignStats sends in a render with the given values
CampaignStatsRequest(id, ws, status, range) ==
    [id |-> id, url |-> "/api/campaign-stats",
     params |-> [workspaceId |-> ws,
                 status |-> IF status # "ALL" THEN Str(status) ELSE Undefined,
                 startDate |-> range.startDate,
                 endDate |-> range.endDate],
     sortBy |-> sortBy, sortOrder |-> sortOrder]

\* The first render's effects: fetchWorkspaces is sent; nothing is selected
\* yet, so the fetch effect does nothing
ReportingMount ==
    /\ pc = "constructed"
    /\ pc' = "mounted"
    /\ requestSeq' = requestSeq + 1
    /\ inflight' = inflight \cup {[id |-> requestSeq + 1, url |-> "/api/workspaces"]}
    /\ UNCHANGED <<campaigns, previousCampaigns, workspaces, selectedWorkspace,
                   loading, error, statusFilter, dateRange, sortBy, sortOrder,
                   stats, saved, timers, effectTimer, timerSeq, changes>>
    /\ UNCHANGED <<result, selectedTeam, workspaceName>>

\* fetchWorkspaces, from the response on; selecting the first workspace runs
\* the fetch effect, which sends the campaign-stats request
ReportingWorkspacesResolve(r, data) ==
    /\ r \in inflight /\ r.url = "/api/workspaces"
    /\ workspaces' = data
    /\ IF Len(data) > 0 /\ data[1]._id # selectedWorkspace
       THEN /\ selectedWorkspace' = data[1]._id
            /\ loading' = TRUE
            /\ requestSeq' = requestSeq + 1
            /\ inflight' = (inflight \ {r}) \cup
                   {CampaignStatsRequest(requestSeq + 1, data[1]._id,
                                         statusFilter, dateRange)}
       ELSE /\ inflight' = inflight \ {r}
            /\ UNCHANGED <<selectedWorkspace, loading, requestSeq>>
    /\ UNCHANGED <<pc, campaigns, previousCampaigns, error, statusFilter,
                   dateRange, sortBy, sortOrder, stats, saved, timers,
                   effectTimer, timerSeq, changes>>
    /\ UNCHANGED <<result, selectedTeam, workspaceName>>

\* fetchWorkspaces, from the rejection on
ReportingWorkspacesFail(r) ==
    /\ r \in inflight /\ r.url = "/api/workspaces"
    /\ inflight' = inflight \ {r}
    /\ error' = Str("Failed to fetch workspaces")
    /\ loading' = FALSE
    /\ UNCHANGED <<pc, campaigns, previousCampaigns, workspaces,
                   selectedWorkspace, statusFilter, dateRange, sortBy,
                   sortOrder, stats, saved, timers, effectTimer, timerSeq,
                   requestSeq, changes>>
    /\ UNCHANGED <<result, selectedTeam, workspaceName>>

\* The component renders its controls
ReportingRendered ==
    pc = "mounted" /\ ~(loading /\ Len(campaigns) = 0) /\ ~Truthy(error)

\* A user event has changed a dependency of the fetch effect: with a
\* workspace selected, fetchCampaignStats sends the request of the new render
ReportingFetchEffect(ws, status, range) ==
    IF Truthy(ws)
    THEN /\ loading' = TRUE
         /\ requestSeq' = requestSeq + 1
         /\ inflight' = inflight \cup
                {CampaignStatsRequest(requestSeq + 1, ws, status, range)}
    ELSE UNCHANGED <<loading, requestSeq, inflight>>

ReportingChangeWorkspace(id) ==
    /\ ReportingRendered /\ changes < MaxChanges
    /\ \E i \in 1..Len(workspaces) : workspaces[i]._id = id
    /\ id # selectedWorkspace
    /\ changes' = changes + 1
    /\ selectedWorkspace' = id
    /\ ReportingFetchEffect(id, statusFilter, dateRange)
    /\ UNCHANGED <<pc, campaigns, previousCampaigns, workspaces, error,
                   statusFilter, dateRange, sortBy, sortOrder, stats, saved,
                   timers, effectTimer, timerSeq>>
    /\ UNCHANGED <<result, selectedTeam, workspaceName>>

ReportingStatusOptions == {"ALL", "ACTIVE", "COMPLETED", "PAUSED", "ARCHIVED"}

ReportingChangeStatus(status) ==
    /\ ReportingRendered /\ changes < MaxChanges
    /\ status \in ReportingStatusOptions /\ status # statusFilter
    /\ changes' = changes + 1
    /\ statusFilter' = status
    /\ ReportingFetchEffect(selectedWorkspace, status, dateRange)
    /\ UNCHANGED <<pc, campaigns, previousCampaigns, workspaces,
                   selectedWorkspace, error, dateRange, sortBy, sortOrder,
                   stats, saved, timers, effectTimer, timerSeq>>
    /\ UNCHANGED <<result, selectedTeam, workspaceName>>

ReportingChangeDate(which, date) ==
    /\ ReportingRendered /\ changes < MaxChanges
    /\ which \in {"startDate", "endDate"}
    /\ date \in DateValues /\ date # dateRange[which]
    /\ changes' = changes + 1
    /\ dateRange' = [dateRange EXCEPT ![which] = date]
    /\ ReportingFetchEffect(selectedWorkspace, statusFilter, dateRange')
    /\ UNCHANGED <<pc, campaigns, previousCampaigns, workspaces,
                   selectedWorkspace, error, statusFilter, sortBy, sortOrder,
                   stats, saved, timers, effectTimer, timerSeq>>
    /\ UNCHANGED <<result, selectedTeam, workspaceName>>

\* fetchCampaignStats, from the response on: the data is sorted with the
\* sort state of the render that sent the request.  For a body that is no
\* array the spread of sortCampaigns throws, which the catch turns into the
\* error
ReportingCampaignsResolve(r, data) ==
    /\ r \in inflight /\ r.url = "/api/campaign-stats"
    /\ inflight' = inflight \ {r}
    /\ IF IsArray(data)
       THEN /\ campaigns' = sortCampaigns(data, r.sortBy, r.sortOrder)
            /\ error' = error
       ELSE /\ campaigns' = campaigns
            /\ error' = Str("Failed to fetch campaign statistics")
    /\ loading' = FALSE
    /\ UNCHANGED <<pc, previousCampaigns, workspaces, selectedWorkspace,
                   statusFilter, dateRange, sortBy, sortOrder, stats, saved,
                   timers, effectTimer, timerSeq, requestSeq, changes>>
    /\ UNCHANGED <<result, selectedTeam, workspaceName>>

\* fetchCampaignStats, from the rejection on
ReportingCampaignsFail(r) ==
    /\ r \in inflight /\ r.url = "/api/campaign-stats"
    /\ inflight' = inflight \ {r}
    /\ error' = Str("Failed to fetch campaign statistics")
    /\ loading' = FALSE
    /\ UNCHANGED <<pc, campaigns, previousCampaigns, workspaces,
                   selectedWorkspace, statusFilter, dateRange, sortBy,
                   sortOrder, stats, saved, timers, effectTimer, timerSeq,
                   requestSeq, changes>>
    /\ UNCHANGED <<result, selectedTeam, workspaceName>>

\* handleSort(field) of ReportingApp.jsx: the order is flipped for the active
\* field, else the field is set with 'desc'; the campaigns are sorted with
\* the sort state of the render clicked in
ReportingHandleSort(field) ==
    /\ ReportingRendered /\ changes < MaxChanges
    /\ changes' = changes + 1
    /\ IF field = sortBy
       THEN /\ sortOrder' = (IF sortOrder = "asc" THEN "desc" ELSE "asc")
            /\ sortBy' = sortBy
       ELSE /\ sortBy' = field
            /\ sortOrder' = "desc"
    /\ campaigns' = sortCampaigns(campaigns, sortBy, sortOrder)
    /\ UNCHANGED <<pc, previousCampaigns, workspaces, selectedWorkspace,
                   loading, error, statusFilter, dateRange, stats, saved,
                   timers, effectTimer, inflight, timerSeq, requestSeq>>
    /\ UNCHANGED <<result, selectedTeam, workspaceName>>

\* Campaign-stats answers, in the order the server may give them
ReportingPayloads ==
    Payloads \cup
    { <<Campaign(Str("B"), Str("COMPLETED"), Num(80), Undefined, Num(23), DateString("d30", 30)),
        Campaign(Str("D"), Str("ACTIVE"), Num(50), Num(4), Null, DateString("d20", 20))>> }

NextReporting ==
    \/ ReportingMount
    \/ \E r \in inflight : \E data \in WorkspaceLists :
           ReportingWorkspacesResolve(r, data)
    \/ \E r \in inflight : ReportingWorkspacesFail(r)
    \/ \E id \in WorkspaceIds : ReportingChangeWorkspace(id)
    \/ \E status \in ReportingStatusOptions : ReportingChangeStatus(status)
    \/ \E which \in {"startDate", "endDate"} : \E date \in DateValues :
           ReportingChangeDate(which, date)
    \/ \E r \in inflight : \E data \in ReportingPayloads :
           ReportingCampaignsResolve(r, data)
    \/ \E r \in inflight : ReportingCampaignsFail(r)
    \/ \E field \in SortFields : ReportingHandleSort(field)

SpecReporting == InitReporting /\ [][NextReporting]_vars

\* C1: the answer to a campaign-stats request that is not the one sent last
\* never changes the campaigns on display
C1_StaleResponseNeverApplied ==
    [][\A r \in CampaignRequests :
           (r \notin inflight' /\ r.id # requestSeq) => campaigns' = campaigns]_vars

\* C29: when the campaign-stats request sent last is answered with
\* campaigns, the error is null afterwards, whatever failed before
C29_ErrorNotSticky ==
    [][\A r \in CampaignRequests : \A data \in ReportingPayloads :
           (/\ r.id = requestSeq
            /\ IsArray(data)
            /\ CampaignsResolve(r, data) \/ ReportingCampaignsResolve(r, data))
           => error' = Null]_vars

\* C18: from (created_at, desc) on, every handleSort (of App.jsx or of
\* ReportingApp.jsx) with the active field keeps the field and flips the
\* order between asc and desc, and every handleSort with another field makes
\* it the active one with order desc
C18_SortToggle ==
    [][\A field \in SortFields :
           (HandleSort(field) \/ ReportingHandleSort(field)) =>
               IF field = sortBy
               THEN /\ sortBy' = sortBy
                    /\ {sortOrder, sortOrder'} = {"asc", "desc"}
               ELSE /\ sortBy' = field
                    /\ sortOrder' = "desc"]_vars

\* C18 witness: another column than created_at has been clicked, which made
\* it the active one with desc, and clicked again, which flipped the order
C18_Witness ==
    /\ Rendered /\ changes = 2 /\ campaigns # <<>>
    /\ sortBy = "camp_name" /\ sortOrder = "asc"

(***************************************************************************)
(* The Dashboard component (src/unnamed/part_002), rendered by both routes *)
(* '/' and '/:workspaceName': a navigation between the two changes the     *)
(* route parameter of the mounted component.  A step is a handler or an    *)
(* answer together with the effects of the renders that follow it.         *)
(***************************************************************************)
\* The values the date inputs give: dates, and '' for an emptied input
DashboardDates == {"2023-12-30", ""}

\* The date range the component is constructed with, on 2024-03-08: the
\* seven days up to the day of the construction
InitialDateRanges ==
    { [startDate |-> Str("2024-03-01"), endDate |-> Str("2024-03-08")] }

\* The options of the status select, and those chosen in the runs
DashboardStatusOptions == {"ALL", "ACTIVE", "COMPLETED", "PAUSED", "ARCHIVED"}
StatusChoices == {"ALL", "ACTIVE"}

\* The most user events in one run of the Dashboard
MaxDashboardChanges == 2

\* What /api/workspaces may answer to the Dashboard: two workspaces whose
\* names start alike, one with a name of one part; none; and no array
DashboardWorkspaceLists ==
    { <<Workspace("w1", "Acme - EU - Sales"), Workspace("w2", "ACME-US-Ops"),
        Workspace("w3", "Solo")>>,
      <<>>,
      NotAnArray("Service unavailable") }

\* What the two requests of a call may be answered with: the body for the
\* current period and the body for the previous one
DashboardAnswers ==
    LET found == <<Campaign(Str("A"), Str("ACTIVE"), Num(100), Num(10), Num(25),
                            DateString("d10", 10)),
                   Campaign(Str("B"), Str("COMPLETED"), Num(80), Undefined, Num(23),
                            DateString("d30", 30))>>
    IN  { <<found, <<>> >>, << <<>>, <<>> >>,
          <<found, NotAnArray("Service unavailable")>> }

\* The names a URL may carry when the page is opened
UrlNames == {Undefined, Str("acme"), Str("Solo"), Str("nobody")}

\* A previous period that ends with the current one
PreviousPeriodToEnd(currentStart, currentEnd) ==
    [previousStart |-> currentStart - (currentEnd - currentStart),
     previousEnd   |-> currentEnd]

\* previousStart and previousEnd of the period from currentStart to
\* currentEnd, all four being times
PreviousPeriod(currentStart, currentEnd) ==
    LET periodLength == currentEnd - currentStart
    IN  [previousStart |-> currentStart - periodLength,
         previousEnd   |-> currentStart]

InitDashboard ==
    /\ pc = "constructed"
    /\ campaigns = <<>> /\ previousCampaigns = <<>>
    /\ workspaces = <<>>
    /\ selectedWorkspace = Str("")
    /\ saved = Null
    /\ loading = TRUE /\ error = Null
    /\ statusFilter = "ALL"
    /\ dateRange \in InitialDateRanges
    /\ sortBy = "created_at" /\ sortOrder = "desc"
    /\ stats = DashboardStats(<<>>, <<>>)
    /\ result = Undefined
    /\ selectedTeam = "ALL" /\ workspaceName \in UrlNames
    /\ Idle

\* parts.length > 2 ? parts[2].trim() : 'Unknown' of a workspace's name
TeamOf(w) ==
    LET parts == split(w.name.v, "-")
    IN  IF Len(parts) > 2 THEN trim(parts[3]) ELSE "Unknown"

\* The teams memo, as the set of its options
teams == {"ALL"} \cup {TeamOf(workspaces[i]) : i \in 1..Len(workspaces)}

\* The filteredWorkspaces memo: the places of its workspaces in workspaces
filteredWorkspaces ==
    {i \in 1..Len(workspaces) :
        selectedTeam = "ALL" \/ TeamOf(workspaces[i]) = selectedTeam}

\* The first part of a workspace's name, trimmed and lower-cased
FirstPart(w) == toLowerCase(trim(split(w.name.v, "-")[1]))

\* array.find: the first place of an array where the test holds, tests being
\* the test's outcomes by place; 0 when there is none
Find(tests) ==
    IF \E i \in DOMAIN tests : tests[i]
    THEN CHOOSE i \in DOMAIN tests : tests[i] /\ \A j \in 1..(i - 1) : ~tests[j]
    ELSE 0

\* What the effects of a render go by and what they change: the values the
\* render shows, and the requests sent
DashboardState ==
    [workspaces |-> workspaces, workspaceName |-> workspaceName,
     selectedWorkspace |-> selectedWorkspace, statusFilter |-> statusFilter,
     dateRange |-> dateRange, loading |-> loading, error |-> error,
     inflight |-> inflight, requestSeq |-> requestSeq]

\* The effect for the URL of render st, upon out: with workspaces and a name
\* in the URL, the first workspace whose first part is the name is selected,
\* and without one the route becomes '/'
UrlEffect(st, out) ==
    IF Len(st.workspaces) > 0 /\ Truthy(st.workspaceName)
    THEN LET workspace ==
                 Find([i \in 1..Len(st.workspaces) |->
                          FirstPart(st.workspaces[i])
                              = toLowerCase(st.workspaceName.v)])
         IN  IF workspace # 0
             THEN [out EXCEPT !.selectedWorkspace = st.workspaces[workspace]._id]
             ELSE [out EXCEPT !.workspaceName = Undefined]
    ELSE out

\* fetchWorkspaces of render st, up to the await: the request, which keeps
\* the name in the URL of that render
FetchWorkspacesOf(st, out) ==
    [out EXCEPT !.requestSeq = @ + 1,
                !.inflight = @ \cup {[id |-> out.requestSeq + 1,
                                      url |-> "/api/workspaces",
                                      workspaceName |-> st.workspaceName]}]

\* One of the two requests of a call of fetchCampaigns
DashboardRequest(id, call, period, st, startDate, endDate) ==
    [id |-> id, url |-> "/api/campaign-stats", call |-> call, period |-> period,
     params |-> [workspaceId |-> st.selectedWorkspace,
                 startDate |-> Str(formatDate(startDate)),
                 endDate |-> Str(formatDate(endDate)),
                 status |-> IF st.statusFilter # "ALL" THEN Str(st.statusFilter)
                            ELSE Undefined]]

\* fetchCampaigns of render st (with a workspace selected), up to the await:
\* formatting an invalid date throws, which the catch turns into the error;
\* else the requests for the current and the previous period are sent
FetchCampaignsOf(st, out) ==
    LET currentStart == DateGetTime(st.dateRange.startDate)
        currentEnd   == DateGetTime(st.dateRange.endDate)
    IN  IF currentStart.t = "nan" \/ currentEnd.t = "nan"
        THEN [out EXCEPT !.error = Str("Invalid time value"), !.loading = FALSE]
        ELSE LET call     == out.requestSeq + 1
                 previous == PreviousPeriod(currentStart.v, currentEnd.v)
             IN  [out EXCEPT
                     !.loading = TRUE,
                     !.requestSeq = @ + 2,
                     !.inflight = @ \cup
                         {DashboardRequest(call, call, "current", st,
                                           currentStart.v, currentEnd.v),
                          DashboardRequest(call + 1, call, "previous", st,
                                           previous.previousStart,
                                           previous.previousEnd)}]

\* The effects of render st, which follows render prev (workspacesSet: the
\* workspaces are a new array), in the order of their declaration: each runs
\* when one of its dependencies has changed
UrlEffectOf(prev, st, workspacesSet) ==
    IF workspacesSet \/ prev.workspaceName # st.workspaceName
    THEN UrlEffect(st, st) ELSE st

FetchWorkspacesEffectOf(prev, st, out) ==
    IF prev.workspaceName # st.workspaceName THEN FetchWorkspacesOf(st, out) ELSE out

FetchCampaignsEffectOf(prev, st, out) ==
    IF /\ \/ prev.selectedWorkspace # st.selectedWorkspace
          \/ prev.dateRange # st.dateRange
          \/ prev.statusFilter # st.statusFilter
       /\ Truthy(st.selectedWorkspace)
    THEN FetchCampaignsOf(st, out) ELSE out

EffectsOf(prev, st, workspacesSet) ==
    FetchCampaignsEffectOf(prev, st,
        FetchWorkspacesEffectOf(prev, st, UrlEffectOf(prev, st, workspacesSet)))

\* What follows the effects of render st, which have left next: the effects
\* of the render of next when they have set the selection or the route
Settled(st, next) ==
    IF next.selectedWorkspace = st.selectedWorkspace
           /\ next.workspaceName = st.workspaceName
    THEN next
    ELSE EffectsOf(st, next, FALSE)

\* The renders and effects that follow an update of render prev to st
Commit(prev, st, workspacesSet) == Settled(st, EffectsOf(prev, st, workspacesSet))

\* The state after the renders, which all crash when workspaces is no array
\* (the teams memo calls workspaces.map)
Committed(out) ==
    /\ workspaces' = out.workspaces
    /\ workspaceName' = out.workspaceName
    /\ selectedWorkspace' = out.selectedWorkspace
    /\ statusFilter' = out.statusFilter
    /\ dateRange' = out.dateRange
    /\ loading' = out.loading
    /\ error' = out.error
    /\ requestSeq' = out.requestSeq
    /\ IF IsArray(out.workspaces)
       THEN /\ inflight' = out.inflight
            /\ UNCHANGED pc
       ELSE /\ inflight' = {}
            /\ pc' = "crashed"

\* The first render and its effects: nothing to look up yet, fetchWorkspaces
\* is called, and no workspace is selected
DashboardMount ==
    /\ pc = "constructed"
    /\ pc' = "mounted"
    /\ requestSeq' = requestSeq + 1
    /\ inflight' = FetchWorkspacesOf(DashboardState, DashboardState).inflight
    /\ UNCHANGED <<campaigns, previousCampaigns, workspaces, selectedWorkspace,
                   loading, error, statusFilter, dateRange, sortBy, sortOrder,
                   stats, saved, timers, effectTimer, timerSeq, changes,
                   result, selectedTeam, workspaceName>>

\* fetchWorkspaces, once answered: the workspaces are set, and the one whose
\* whole name is the name in the URL of the call, if any, is selected
DashboardWorkspacesResolve(r, data) ==
    /\ pc = "mounted"
    /\ r \in inflight /\ r.url = "/api/workspaces"
    /\ LET workspace ==
               IF Truthy(r.workspaceName) /\ IsArray(data) /\ Len(data) > 0
               THEN Find([i \in 1..Len(data) |->
                             toLowerCase(data[i].name.v)
                                 = toLowerCase(r.workspaceName.v)])
               ELSE 0
           st == [DashboardState EXCEPT
                     !.workspaces = data,
                     !.selectedWorkspace =
                         IF workspace # 0 THEN data[workspace]._id ELSE @,
                     !.loading = FALSE,
                     !.inflight = @ \ {r}]
       IN  IF IsArray(data)
           THEN \E out \in {Commit(DashboardState, st, TRUE)} : Committed(out)
           ELSE \E out \in {st} : Committed(out)
    /\ UNCHANGED <<campaigns, previousCampaigns, sortBy, sortOrder, stats,
                   saved, timers, effectTimer, timerSeq, changes, result,
                   selectedTeam>>

\* fetchWorkspaces, once rejected
DashboardWorkspacesFail(r, e) ==
    /\ pc = "mounted"
    /\ r \in inflight /\ r.url = "/api/workspaces"
    /\ inflight' = inflight \ {r}
    /\ error' = Get(e, "message")
    /\ loading' = FALSE
    /\ UNCHANGED <<pc, campaigns, previousCampaigns, workspaces,
                   selectedWorkspace, statusFilter, dateRange, sortBy,
                   sortOrder, stats, saved, timers, effectTimer, timerSeq,
                   requestSeq, changes, result, selectedTeam, workspaceName>>

\* The controls and the table are shown
DashboardRendered == pc = "mounted" /\ ~loading /\ ~Truthy(error)

\* The option the team select shows: the selected team, or the first option
\* (the teams are sorted) when the selected team is none of the options
ShownTeam ==
    IF selectedTeam \in teams THEN selectedTeam
    ELSE CHOOSE team \in teams :
             \A other \in teams \ {team} : StringLess(team, other)

\* handleTeamChange, the choice of another option of the team select: no
\* workspace is selected any more and the route becomes '/'
handleTeamChange(team) ==
    /\ DashboardRendered /\ changes < MaxDashboardChanges
    /\ team \in teams \ {ShownTeam}
    /\ changes' = changes + 1
    /\ selectedTeam' = team
    /\ \E out \in {Commit(DashboardState,
                        [DashboardState EXCEPT !.selectedWorkspace = Str(""),
                                               !.workspaceName = Undefined],
                        FALSE)} :
           Committed(out)
    /\ UNCHANGED <<campaigns, previousCampaigns, sortBy, sortOrder, stats,
                   saved, timers, effectTimer, timerSeq, result>>

\* The options of the workspace select, and the one it shows
WorkspaceOptions ==
    {Str("")} \cup {workspaces[i]._id : i \in filteredWorkspaces}

ShownOption ==
    IF selectedWorkspace \in WorkspaceOptions THEN selectedWorkspace ELSE Str("")

\* handleWorkspaceChange, the choice of another option: a workspace is
\* selected and the route becomes the first part of its name; with 'Select
\* Workspace' the route becomes '/' and the selection stays
handleWorkspaceChange(selectedId) ==
    /\ DashboardRendered /\ changes < MaxDashboardChanges
    /\ selectedId \in WorkspaceOptions \ {ShownOption}
    /\ changes' = changes + 1
    /\ LET selected == Find([i \in 1..Len(workspaces) |->
                                workspaces[i]._id = selectedId])
       IN  \E out \in {Commit(DashboardState,
                            IF selected # 0
                            THEN [DashboardState EXCEPT
                                     !.selectedWorkspace = selectedId,
                                     !.workspaceName =
                                         Str(FirstPart(workspaces[selected]))]
                            ELSE [DashboardState EXCEPT
                                     !.workspaceName = Undefined],
                            FALSE)} :
               Committed(out)
    /\ UNCHANGED <<campaigns, previousCampaigns, sortBy, sortOrder, stats,
                   saved, timers, effectTimer, timerSeq, result, selectedTeam>>

\* The status select of the Dashboard: setStatusFilter(value), at once
DashboardStatusChange(value) ==
    /\ DashboardRendered /\ changes < MaxDashboardChanges
    /\ value \in (DashboardStatusOptions \cap StatusChoices) \ {statusFilter}
    /\ changes' = changes + 1
    /\ \E out \in {Commit(DashboardState,
                        [DashboardState EXCEPT !.statusFilter = value], FALSE)} :
           Committed(out)
    /\ UNCHANGED <<campaigns, previousCampaigns, sortBy, sortOrder, stats,
                   saved, timers, effectTimer, timerSeq, result, selectedTeam>>

\* A date input of the Dashboard: setDateRange({...dateRange, [which]: the
\* input's value}), at once
DashboardDateChange(which, value) ==
    /\ DashboardRendered /\ changes < MaxDashboardChanges
    /\ which \in {"startDate", "endDate"}
    /\ value \in DashboardDates \ {dateRange[which].v}
    /\ changes' = changes + 1
    /\ \E out \in {Commit(DashboardState,
                        [DashboardState EXCEPT !.dateRange[which] = Str(value)],
                        FALSE)} :
           Committed(out)
    /\ UNCHANGED <<campaigns, previousCampaigns, sortBy, sortOrder, stats,
                   saved, timers, effectTimer, timerSeq, result, selectedTeam>>

\* handleSort of the Dashboard, a click on a column header of the table,
\* which is shown when there are campaigns
DashboardHandleSort(field) ==
    /\ DashboardRendered /\ changes < MaxDashboardChanges
    /\ Len(campaigns) # 0
    /\ changes' = changes + 1
    /\ sortOrder' = NewOrder(field, sortBy, sortOrder)
    /\ sortBy' = field
    /\ campaigns' = sortCampaigns(campaigns, sortBy, sortOrder)
    /\ stats' = DashboardStats(campaigns', previousCampaigns)
    /\ UNCHANGED <<pc, previousCampaigns, workspaces, selectedWorkspace,
                   loading, error, statusFilter, dateRange, saved, timers,
                   effectTimer, inflight, timerSeq, requestSeq, result,
                   selectedTeam, workspaceName>>

\* The two requests of a call of fetchCampaigns
CallRequests(call) ==
    {r \in inflight : r.url = "/api/campaign-stats" /\ r.call = call}

\* A call of fetchCampaigns, once both of its requests are answered; the
\* stats memo follows the campaigns.  A body that is no array is stored like
\* any other, and the memo of the render that follows throws at its reduce
DashboardCampaignsResolve(call, current, previous) ==
    /\ pc = "mounted"
    /\ CallRequests(call) # {}
    /\ campaigns' = current
    /\ previousCampaigns' = previous
    /\ loading' = FALSE
    /\ IF IsArray(current) /\ IsArray(previous)
       THEN /\ stats' = DashboardStats(current, previous)
            /\ inflight' = inflight \ CallRequests(call)
            /\ UNCHANGED pc
       ELSE /\ pc' = "crashed"
            /\ inflight' = {}
            /\ UNCHANGED stats
    /\ UNCHANGED <<workspaces, selectedWorkspace, error, statusFilter,
                   dateRange, sortBy, sortOrder, saved, timers, effectTimer,
                   timerSeq, requestSeq, changes, result, selectedTeam,
                   workspaceName>>

\* A call of fetchCampaigns, once one of its two requests is rejected
DashboardCampaignsFail(call, e) ==
    /\ pc = "mounted"
    /\ CallRequests(call) # {}
    /\ inflight' = inflight \ CallRequests(call)
    /\ error' = Get(e, "message")
    /\ loading' = FALSE
    /\ UNCHANGED <<pc, campaigns, previousCampaigns, workspaces,
                   selectedWorkspace, statusFilter, dateRange, sortBy,
                   sortOrder, stats, saved, timers, effectTimer, timerSeq,
                   requestSeq, changes, result, selectedTeam, workspaceName>>

\* The failures of the Dashboard's requests: with a message and without
DashboardFailures ==
    { AxiosError(Undefined, Undefined, Str("Network Error")),
      AxiosError(Undefined, Undefined, Undefined) }

\* The values an option of the team select and of the workspace select may
\* have
TeamNames == {"ALL", "Ops", "Sales", "Unknown"}
OptionValues == {Str(""), Str("w1"), Str("w2"), Str("w3")}

NextDashboard ==
    \/ DashboardMount
    \/ \E r \in inflight : \E data \in DashboardWorkspaceLists :
           DashboardWorkspacesResolve(r, data)
    \/ \E r \in inflight : \E e \in DashboardFailures :
           DashboardWorkspacesFail(r, e)
    \/ \E team \in TeamNames : handleTeamChange(team)
    \/ \E selectedId \in OptionValues : handleWorkspaceChange(selectedId)
    \/ \E value \in StatusChoices : DashboardStatusChange(value)
    \/ \E which \in {"startDate", "endDate"} : \E value \in DashboardDates :
           DashboardDateChange(which, value)
    \/ \E field \in {"camp_name", "created_at"} : DashboardHandleSort(field)
    \/ \E r \in inflight : \E answers \in DashboardAnswers :
           DashboardCampaignsResolve(r.id, answers[1], answers[2])
    \/ \E r \in inflight : \E e \in DashboardFailures :
           DashboardCampaignsFail(r.id, e)

SpecDashboard == InitDashboard /\ [][NextDashboard]_vars

\* The requests in flight for the given period
PeriodRequests(period) ==
    {r \in inflight : r.url = "/api/campaign-stats" /\ r.period = period}

\* C11: the previous period's query range ends before the current period's
\* begins, so that no date is in both (for a current range with start <= end)
C11_PreviousWindowExcludesCurrentStart ==
    \A cur \in PeriodRequests("current") : \A prev \in PeriodRequests("previous") :
        (prev.call = cur.call
            /\ DateParse(cur.params.startDate.v).v <= DateParse(cur.params.endDate.v).v)
        => DateParse(prev.params.endDate.v).v < DateParse(cur.params.startDate.v).v

\* C12: for a current range with start <= end, the request for the current
\* period comes with one request for the previous period, which carries the
\* range of the same length that ends on the current start, and the same
\* workspaceId (of a workspace) and status (none for ALL)
C12_PreviousWindowPrecedesWithEqualLength ==
    \A cur \in PeriodRequests("current") :
        DateParse(cur.params.startDate.v).v <= DateParse(cur.params.endDate.v).v
        => /\ Cardinality({prev \in PeriodRequests("previous") :
                              prev.call = cur.call}) = 1
           /\ \A prev \in PeriodRequests("previous") :
                  prev.call = cur.call
                  => /\ prev.params.endDate = cur.params.startDate
                     /\ DateParse(prev.params.startDate.v).v
                            = DateParse(cur.params.startDate.v).v
                                - (DateParse(cur.params.endDate.v).v
                                       - DateParse(cur.params.startDate.v).v)
                     /\ prev.params.workspaceId = cur.params.workspaceId
                     /\ prev.params.status = cur.params.status
           /\ Truthy(cur.params.workspaceId)
           /\ cur.params.status # Str("ALL")

\* C12 witness: the week from 2024-03-01 of an ACTIVE filter is compared
\* with the week from 2024-02-23, across the leap day
C12_Witness ==
    /\ pc = "mounted" /\ loading
    /\ statusFilter = "ACTIVE"
    /\ dateRange = [startDate |-> Str("2024-03-01"), endDate |-> Str("2024-03-08")]
    /\ \E cur \in PeriodRequests("current") : \E prev \in PeriodRequests("previous") :
           /\ prev.call = cur.call
           /\ cur.params = [workspaceId |-> Str("w1"),
                            startDate |-> Str("2024-03-01"),
                            endDate |-> Str("2024-03-08"),
                            status |-> Str("ACTIVE")]
           /\ prev.params = [workspaceId |-> Str("w1"),
                             startDate |-> Str("2024-02-23"),
                             endDate |-> Str("2024-03-01"),
                             status |-> Str("ACTIVE")]

(***************************************************************************)
(* sortCampaigns on its own: every array of up to MaxSortLen of the        *)
(* records below is an input, for every sort field and both orders.  The   *)
(* array passed is the first array of the heap; campaigns holds its        *)
(* elements, result the array returned and its elements.                   *)
(***************************************************************************)
MaxSortLen == 4

\* Names that differ in case only, equal counts and dates, and missing and
\* null values among them
SortRecords ==
    { Campaign(Str("alpha"), Str("ACTIVE"), Num(5), Num(1), Num(1), Str("2024-01-01")),
      Campaign(Str("Alpha"), Str("ACTIVE"), Num(5), Num(2), Num(1), Str("2024-03-01")),
      Campaign(Str("beta"), Str("COMPLETED"), Num(9), Num(3), Num(1), Undefined),
      Campaign(Str("Delta"), Str("ACTIVE"), Null, Num(4), Num(1), Str("2024-03-01")),
      Campaign(Undefined, Str("PAUSED"), Undefined, Num(5), Num(1), Null) }

InitSort ==
    /\ pc = "input"
    /\ campaigns \in SeqsUpTo(SortRecords, MaxSortLen)
    /\ sortBy \in SortFields
    /\ sortOrder \in {"asc", "desc"}
    /\ previousCampaigns = <<>> /\ workspaces = <<>>
    /\ selectedWorkspace = Null /\ saved = Null
    /\ loading = FALSE /\ error = Null /\ statusFilter = "ALL"
    /\ dateRange = [startDate |-> 10, endDate |-> 30]
    /\ stats = InitialStats
    /\ result = Undefined
    /\ selectedTeam = "ALL" /\ workspaceName = Undefined
    /\ Idle

\* After a call on the first array of the heap: campaigns is what that array
\* holds now, result the array returned
Returned(call) ==
    /\ campaigns' = call.heap[1]
    /\ UNCHANGED <<selectedTeam, workspaceName>>
    /\ result' = [array |-> call.returned, items |-> call.heap[call.returned]]

\* sortCampaigns(campaigns)
ApplySortCampaigns ==
    /\ pc = "input"
    /\ pc' = "sortCampaigns"
    /\ Returned(sortCampaignsOn(<<campaigns>>, 1, sortBy, sortOrder))
    /\ UNCHANGED <<previousCampaigns, workspaces, selectedWorkspace, loading,
                   error, statusFilter, dateRange, sortBy, sortOrder, stats,
                   saved, timers, effectTimer, inflight, timerSeq, requestSeq,
                   changes>>

\* sortCampaigns of the array the call before has returned
ApplySortAgain ==
    /\ pc = "sortCampaigns"
    /\ pc' = "sortCampaigns again"
    /\ Returned(sortCampaignsOn(<<result.items>>, 1, sortBy, sortOrder))
    /\ UNCHANGED <<previousCampaigns, workspaces, selectedWorkspace, loading,
                   error, statusFilter, dateRange, sortBy, sortOrder, stats,
                   saved, timers, effectTimer, inflight, timerSeq, requestSeq,
                   changes>>

NextSort == ApplySortCampaigns \/ ApplySortAgain

SpecSort == InitSort /\ [][NextSort]_vars

\* sortCampaigns has returned
Sorted == pc \in {"sortCampaigns", "sortCampaigns again"}

\* The record's value of the sort field is neither null nor undefined
HasKey(c, by) == Get(c, by).t \notin {"null", "undefined"}

\* The value records are ordered by: the time of a date, a string without
\* its case, a number itself
NormalKey(c, by) ==
    IF by = "created_at" THEN DateGetTime(Get(c, by))
    ELSE IF Get(c, by).t = "string" THEN Str(toLowerCase(Get(c, by).v))
    ELSE Get(c, by)

\* C13: in the array returned, no record whose sort-field value is null or
\* undefined comes before a record whose sort-field value is defined
C13_NullKeysLast ==
    Sorted => \A i, j \in 1..Len(result.items) :
                  (~HasKey(result.items[i], sortBy) /\ HasKey(result.items[j], sortBy))
                  => j < i

\* C14: sorted by created_at, a record whose date does not parse comes
\* before every record with a date that parses for asc, after every one for
\* desc
C14_UnparsableDateIsLowest ==
    (Sorted /\ sortBy = "created_at")
    => \A i, j \in 1..Len(result.items) :
           (DateGetTime(Get(result.items[i], "created_at")).t = "nan"
               /\ DateGetTime(Get(result.items[j], "created_at")).t = "number"
               /\ HasKey(result.items[j], "created_at"))
           => IF sortOrder = "asc" THEN i < j ELSE j < i

\* The records of the array are all different
Distinct(items) ==
    \A i, j \in 1..Len(items) : items[i] = items[j] => i = j

PositionIn(items, c) == CHOOSE i \in 1..Len(items) : items[i] = c

\* Both sort-field values are null or undefined, or they are the same number,
\* the same time or the same string but for its case
EqualKeys(a, b, by) ==
    \/ ~HasKey(a, by) /\ ~HasKey(b, by)
    \/ /\ HasKey(a, by) /\ HasKey(b, by)
       /\ NormalKey(a, by).t # "nan"
       /\ NormalKey(a, by) = NormalKey(b, by)

\* C15: records with equal sort keys (both without a key included) are
\* returned in the order they had in the array passed, and sorting the
\* array returned once more returns the same sequence
C15_StableAndIdempotent ==
    /\ (Sorted /\ Distinct(campaigns))
       => \A i, j \in 1..Len(campaigns) :
              (i < j /\ EqualKeys(campaigns[i], campaigns[j], sortBy))
              => PositionIn(result.items, campaigns[i])
                     < PositionIn(result.items, campaigns[j])
    /\ pc = "sortCampaigns again" => result.items = campaigns

\* The number of times c is in items
RECURSIVE Occurrences(_, _)
Occurrences(items, c) ==
    IF items = <<>> THEN 0
    ELSE (IF Head(items) = c THEN 1 ELSE 0) + Occurrences(Tail(items), c)

\* C16: the array returned is a permutation of the array passed, its defined
\* keys never decrease for asc and never increase for desc, and two names
\* that differ in case only compare as equal
C16_SortedPermutation ==
    Sorted
    => /\ Len(result.items) = Len(campaigns)
       /\ \A c \in SortRecords :
              Occurrences(result.items, c) = Occurrences(campaigns, c)
       /\ \A i, j \in 1..Len(result.items) :
              (i < j /\ HasKey(result.items[i], sortBy)
                     /\ HasKey(result.items[j], sortBy))
              => IF sortOrder = "asc"
                 THEN ~Less(NormalKey(result.items[j], sortBy),
                            NormalKey(result.items[i], sortBy))
                 ELSE ~Greater(NormalKey(result.items[j], sortBy),
                               NormalKey(result.items[i], sortBy))
       /\ \A i, j \in 1..Len(campaigns) :
              (Get(campaigns[i], "camp_name").t = "string"
                  /\ Get(campaigns[j], "camp_name").t = "string"
                  /\ toLowerCase(campaigns[i].camp_name.v)
                         = toLowerCase(campaigns[j].camp_name.v))
              => CompareCampaigns(campaigns[i], campaigns[j], "camp_name", sortOrder) = 0

\* The records of items that have a key follow each other in the order
\* given: their keys never decrease for asc and never increase for desc
InOrder(items, by, order) ==
    \A i, j \in 1..Len(items) :
        (i < j /\ HasKey(items[i], by) /\ HasKey(items[j], by))
        => IF order = "asc"
           THEN ~Less(NormalKey(items[j], by), NormalKey(items[i], by))
           ELSE ~Greater(NormalKey(items[j], by), NormalKey(items[i], by))

\* C28: after a handleSort the campaigns on display are in the order of the
\* sort field and the sort order that the call has set
C28_SortedByNewFieldAndOrder ==
    [][\A field \in SortFields :
           (HandleSort(field) \/ ReportingHandleSort(field))
               => InOrder(campaigns', sortBy', sortOrder')]_vars

\* C17: a call of sortCampaigns leaves the array passed as it was and
\* returns another array
C17_InputNotMutated ==
    [][(pc' \in {"sortCampaigns", "sortCampaigns again"} /\ pc' # pc)
       => /\ campaigns' = (IF pc = "input" THEN campaigns ELSE result.items)
          /\ result'.array # 1]_vars

\* C17 witness: sortCampaigns has returned an array in another order than
\* the array passed, which is still in its own
C17_Witness ==
    /\ pc = "sortCampaigns"
    /\ Len(campaigns) = 3
    /\ result.array = 2
    /\ result.items # campaigns
    /\ result.items[1] = campaigns[3]

(***************************************************************************)
(* The filters and the windowed statistics of the App components of        *)
(* src/unnamed/part_000 and src/unnamed/part_002, on their own: campaigns  *)
(* is the array passed, statusFilter and dateRange the state of the        *)
(* render, result what the function applied has returned or thrown.        *)
(***************************************************************************)
MaxFilterLen == 2

\* A campaign with the dates of its last update and of its last activity
WithActivity(c, updated, lastActivity) ==
    [t |-> "object", camp_name |-> c.camp_name, status |-> c.status,
     lead_contacted_count |-> c.lead_contacted_count,
     replied_count |-> c.replied_count,
     positive_reply_count |-> c.positive_reply_count,
     created_at |-> c.created_at, updated_at |-> updated,
     last_activity_date |-> lastActivity]

\* Campaigns created before, on the bounds of, within and after the windows
\* of the model, or without a date that parses
FilterRecords ==
    { Campaign(Str("A"), Str("ACTIVE"), Num(100), Num(10), Num(25), DateString("d20", 20)),
      WithActivity(Campaign(Str("B"), Str("COMPLETED"), Num(80), Num(8), Num(4),
                            DateString("d10", 10)),
                   DateString("d30", 30), Null),
      WithActivity(Campaign(Str("C"), Str("PAUSED"), Num(50), Num(5), Num(2),
                            DateString("d05", 5)),
                   DateString("d20", 20), DateString("d35", 35)),
      Campaign(Str("D"), Str("active"), Num(7), Null, Null, DateString("d30", 30)),
      WithActivity(Campaign(Str("E"), Undefined, Num(3), Num(1), Num(1), Str("not a date")),
                   DateString("d20", 20), Undefined) }

InitFilter ==
    /\ pc = "input"
    /\ campaigns \in SeqsUpTo(FilterRecords, MaxFilterLen)
    /\ statusFilter \in ReportingStatusOptions
    /\ dateRange \in [startDate : DateValues, endDate : DateValues]
    /\ previousCampaigns = <<>> /\ workspaces = <<>>
    /\ selectedWorkspace = Null /\ saved = Null
    /\ loading = FALSE /\ error = Null
    /\ sortBy = "created_at" /\ sortOrder = "desc"
    /\ stats = InitialStats
    /\ result = Undefined
    /\ selectedTeam = "ALL" /\ workspaceName = Undefined
    /\ Idle

\* array.filter(keep): the elements keep[i] is true of, in the array's order
RECURSIVE Filter(_, _, _)
Filter(array, keep, i) ==
    IF i > Len(array) THEN <<>>
    ELSE (IF keep[i] THEN <<array[i]>> ELSE <<>>) \o Filter(array, keep, i + 1)

\* A status test that takes 'active' for 'ACTIVE'
MatchesStatusInAnyCase(filter, campaign) ==
    \/ filter = "ALL"
    \/ /\ campaign.status.t = "string"
       /\ toLowerCase(campaign.status.v) = toLowerCase(filter)

\* statusFilter === 'ALL' || campaign.status === statusFilter
matchesStatus(filter, campaign) ==
    filter = "ALL" \/ campaign.status = Str(filter)

\* The filteredCampaigns memo on the array data of the heap: filter returns
\* a new array
filteredCampaignsOn(heap, data, filter) ==
    [heap |-> Append(heap,
                  Filter(heap[data],
                         [i \in 1..Len(heap[data]) |->
                              matchesStatus(filter, heap[data][i])], 1)),
     returned |-> Len(heap) + 1]

ApplyFilteredCampaigns ==
    /\ pc = "input"
    /\ pc' = "filteredCampaigns"
    /\ Returned(filteredCampaignsOn(<<campaigns>>, 1, statusFilter))
    /\ UNCHANGED <<previousCampaigns, workspaces, selectedWorkspace, loading,
                   error, statusFilter, dateRange, sortBy, sortOrder, stats,
                   saved, timers, effectTimer, inflight, timerSeq, requestSeq,
                   changes>>

\* date >= startDate && date <= endDate for the Date made of value: false
\* both ways for an invalid Date
InRange(value, startDate, endDate) ==
    \E time \in {DateGetTime(value)} :
        /\ time.t = "number"
        /\ ~Less(time, Num(startDate)) /\ ~Less(Num(endDate), time)

\* filterCampaignsByDate(campaigns, startDate, endDate), the same function in
\* both files, on the array data of the heap
filterCampaignsByDateOn(heap, data, startDate, endDate) ==
    [heap |-> Append(heap,
                  Filter(heap[data],
                         [i \in 1..Len(heap[data]) |->
                              InRange(heap[data][i].created_at, startDate, endDate)],
                         1)),
     returned |-> Len(heap) + 1]

ApplyFilterCampaignsByDate ==
    /\ pc = "input"
    /\ pc' = "filterCampaignsByDate"
    /\ Returned(filterCampaignsByDateOn(<<campaigns>>, 1, dateRange.startDate,
                                        dateRange.endDate))
    /\ UNCHANGED <<previousCampaigns, workspaces, selectedWorkspace, loading,
                   error, statusFilter, dateRange, sortBy, sortOrder, stats,
                   saved, timers, effectTimer, inflight, timerSeq, requestSeq,
                   changes>>

\* acc += count for a number or NaN acc and a count that is a number, null
\* or undefined
Plus(acc, count) ==
    IF acc.t = "number" /\ count.t = "number" THEN Num(acc.v + count.v)
    ELSE IF acc.t = "number" /\ count.t = "null" THEN acc
    ELSE NaN

\* new Date(value).toISOString() throws a RangeError
InvalidDate(value) == DateGetTime(value) = NaN

\* The reduce of part_000's getFilteredStats from campaign i on.  The dates
\* of a campaign are created_at and, when they are truthy, last_activity_date
\* and updated_at; the campaign is counted when any of them is in the range.
\* The debug log formats each of these dates with toISOString, which throws
\* for an invalid one.
RECURSIVE FilteredStatsReduce(_, _, _, _, _)
FilteredStatsReduce(cs, i, acc, startDate, endDate) ==
    IF i > Len(cs) THEN [returned |-> acc]
    ELSE LET lastActivity == Get(cs[i], "last_activity_date")
             updatedAt    == Get(cs[i], "updated_at")
             isInRange ==
                 \/ InRange(cs[i].created_at, startDate, endDate)
                 \/ Truthy(lastActivity) /\ InRange(lastActivity, startDate, endDate)
                 \/ Truthy(updatedAt) /\ InRange(updatedAt, startDate, endDate)
         IN  IF \/ InvalidDate(cs[i].created_at)
                \/ Truthy(lastActivity) /\ InvalidDate(lastActivity)
                \/ Truthy(updatedAt) /\ InvalidDate(updatedAt)
             THEN [thrown |-> "RangeError: Invalid time value"]
             ELSE FilteredStatsReduce(cs, i + 1,
                      IF isInRange
                      THEN [totalContacted  |-> Plus(acc.totalContacted,
                                                     cs[i].lead_contacted_count),
                            totalReplies    |-> Plus(acc.totalReplies,
                                                     cs[i].replied_count),
                            positiveReplies |-> Plus(acc.positiveReplies,
                                                     cs[i].positive_reply_count)]
                      ELSE acc,
                      startDate, endDate)

\* getFilteredStats of part_000: the totals are numbers or NaN
getFilteredStats(cs, startDate, endDate) ==
    TheOne({IF "thrown" \in DOMAIN reduced THEN reduced
            ELSE [returned |->
                     [totalContacted  |-> reduced.returned.totalContacted,
                      totalReplies    |-> reduced.returned.totalReplies,
                      positiveReplies |-> reduced.returned.positiveReplies,
                      leadRate |->
                          IF Greater(reduced.returned.totalContacted, Num(0))
                          THEN IF reduced.returned.positiveReplies.t = "number"
                               THEN LeadRateOf(reduced.returned.positiveReplies.v,
                                               reduced.returned.totalContacted.v)
                               ELSE "NaN%"
                          ELSE "0%"]] :
               reduced \in {FilteredStatsReduce(cs, 1,
                                [totalContacted |-> Num(0),
                                 totalReplies |-> Num(0),
                                 positiveReplies |-> Num(0)],
                                startDate, endDate)}})

ApplyGetFilteredStats ==
    /\ pc = "input"
    /\ pc' = "getFilteredStats"
    /\ UNCHANGED <<selectedTeam, workspaceName>>
    /\ result' = getFilteredStats(campaigns, dateRange.startDate, dateRange.endDate)
    /\ UNCHANGED <<campaigns, previousCampaigns, workspaces, selectedWorkspace,
                   loading, error, statusFilter, dateRange, sortBy, sortOrder,
                   stats, saved, timers, effectTimer, inflight, timerSeq,
                   requestSeq, changes>>

\* The map of part_002's getFilteredStats: a campaign created outside the
\* range is replaced by a copy with zero counts
ZeroedOutside(cs, startDate, endDate) ==
    [i \in 1..Len(cs) |->
        IF InRange(cs[i].created_at, startDate, endDate) THEN cs[i]
        ELSE [cs[i] EXCEPT !.lead_contacted_count = Num(0),
                           !.replied_count = Num(0),
                           !.positive_reply_count = Num(0)]]

\* getFilteredStats of part_002: the totals are numbers
getFilteredStatsOfCreated(cs, startDate, endDate) ==
    TheOne({[returned |->
                [totalContacted  |-> acc.totalContacted,
                 totalReplies    |-> acc.totalReplies,
                 positiveReplies |-> acc.positiveReplies,
                 leadRate        |-> IF acc.totalContacted > 0
                                     THEN LeadRateOf(acc.positiveReplies,
                                                     acc.totalContacted)
                                     ELSE "0%"]] :
               acc \in {StatsReduce(filtered, 1,
                            [totalContacted |-> 0, totalReplies |-> 0,
                             positiveReplies |-> 0]) :
                            filtered \in {ZeroedOutside(cs, startDate, endDate)}}})

ApplyGetFilteredStatsOfCreated ==
    /\ pc = "input"
    /\ pc' = "getFilteredStats of part_002"
    /\ UNCHANGED <<selectedTeam, workspaceName>>
    /\ result' = getFilteredStatsOfCreated(campaigns, dateRange.startDate,
                                           dateRange.endDate)
    /\ UNCHANGED <<campaigns, previousCampaigns, workspaces, selectedWorkspace,
                   loading, error, statusFilter, dateRange, sortBy, sortOrder,
                   stats, saved, timers, effectTimer, inflight, timerSeq,
                   requestSeq, changes>>

NextFilter ==
    \/ ApplyFilteredCampaigns
    \/ ApplyFilterCampaignsByDate
    \/ ApplyGetFilteredStats
    \/ ApplyGetFilteredStatsOfCreated

SpecFilter == InitFilter /\ [][NextFilter]_vars

\* The campaigns of items with the status given, in the order of items
RECURSIVE WithStatus(_, _)
WithStatus(items, status) ==
    IF items = <<>> THEN <<>>
    ELSE (IF Head(items).status = Str(status) THEN <<Head(items)>> ELSE <<>>)
             \o WithStatus(Tail(items), status)

\* C19: the status filter returns every campaign for ALL and else exactly
\* the campaigns with that status, in the order of the array passed, in a new
\* array, and leaves the array passed as it was
C19_StatusFilterSelectsInOrder ==
    [][(pc = "input" /\ pc' = "filteredCampaigns") =>
           /\ campaigns' = campaigns
           /\ result'.array # 1
           /\ result'.items = IF statusFilter = "ALL" THEN campaigns
                              ELSE WithStatus(campaigns, statusFilter)]_vars

\* C19 witness: the filter has kept one of two campaigns, the second, and
\* has dropped the one whose status differs in case only
C19_Witness ==
    /\ pc = "filteredCampaigns" /\ statusFilter = "ACTIVE"
    /\ Len(campaigns) = 2
    /\ campaigns[1].status = Str("active")
    /\ result.items = <<campaigns[2]>>

\* The campaigns of items whose created_at is a date that parses to a time
\* of [startDate, endDate], in the order of items
RECURSIVE CreatedWithin(_, _, _)
CreatedWithin(items, startDate, endDate) ==
    IF items = <<>> THEN <<>>
    ELSE (IF /\ Head(items).created_at.t = "string"
             /\ "time" \in DOMAIN Head(items).created_at
             /\ Head(items).created_at.time \in startDate..endDate
          THEN <<Head(items)>> ELSE <<>>)
             \o CreatedWithin(Tail(items), startDate, endDate)

\* C20: the campaigns of a window are those created within [start, end],
\* bounds included, and the window's totals are the sums over these alone,
\* whatever the other dates of a campaign are
C20_WindowByCreatedAtOnly ==
    LET within == CreatedWithin(campaigns, dateRange.startDate, dateRange.endDate)
        contacted == CountSum(within, "lead_contacted_count")
        replies   == CountSum(within, "replied_count")
        positive  == CountSum(within, "positive_reply_count")
    IN  /\ pc = "filterCampaignsByDate" => result.items = within
        /\ pc = "getFilteredStats of part_002" =>
               /\ result.returned.totalContacted = contacted
               /\ result.returned.totalReplies = replies
               /\ result.returned.positiveReplies = positive
        /\ pc = "getFilteredStats" =>
               /\ "returned" \in DOMAIN result
               /\ result.returned.totalContacted = Num(contacted)
               /\ result.returned.totalReplies = Num(replies)
               /\ result.returned.positiveReplies = Num(positive)

(***************************************************************************)
(* The App component of src/unnamed/part_000: the workspace selected is an *)
(* object kept in localStorage, the campaigns of every date are fetched,   *)
(* and the stats are those of the date range.  The dates of the range are  *)
(* the start of a day and the end of a day (the days are UTC days).        *)
(***************************************************************************)
\* The length of a day in the unit of the model's times: day d starts at
\* time d and ends right before time d + DayLength
DayLength == 10

\* The days before today the range starts at when the component is built
DefaultDays == 14

\* The day the component is built on: the last of the model's dates
Today == CHOOSE day \in DateValues : \A other \in DateValues : other <= day

\* date.setHours(0, 0, 0, 0) and date.setHours(23, 59, 59, 999), on times
StartOfDay(time) == time - (time % DayLength)
EndOfDay(time) == StartOfDay(time) + DayLength - 1

\* The counts a table row formats with toLocaleString()
RowCounts == {"lead_count", "completed_lead_count", "lead_contacted_count",
              "sent_count", "replied_count", "positive_reply_count",
              "bounced_count", "unsubscribed_count"}

\* A campaign with every count of a row: the counts it has not are 1
Complete(campaign) ==
    [name \in DOMAIN campaign \cup RowCounts |->
        IF name \in DOMAIN campaign THEN campaign[name] ELSE Num(1)]

\* What /api/campaign-stats may answer to this component: no campaign; no
\* array; three campaigns of two statuses, one of them created before today's
\* range and updated within it; a campaign without some counts; a campaign
\* whose created_at is no date
FilteringPayloads ==
    { <<>>,
      NotAnArray("Service unavailable"),
      <<Complete(Campaign(Str("B"), Str("ACTIVE"), Num(100), Num(10), Num(5),
                          DateString("d20", 20))),
        Complete(Campaign(Str("A"), Str("PAUSED"), Num(80), Num(8), Num(2),
                          DateString("d10", 10))),
        Complete(WithActivity(Campaign(Str("C"), Str("PAUSED"), Num(50), Num(5), Num(2),
                                       DateString("d05", 5)),
                              DateString("d20", 20), Null))>>,
      <<Campaign(Str("D"), Str("ACTIVE"), Num(7), Null, Null, DateString("d30", 30))>>,
      <<Complete(Campaign(Str("E"), Str("ACTIVE"), Num(3), Num(1), Num(1),
                          Str("not a date")))>> }

\* A response without a body (response.data is null), kept like a body that
\* is no array
NoData == <<[t |-> "null", array |-> FALSE]>>

\* What /api/workspaces may answer to this component
FilteringWorkspaceBodies ==
    WorkspaceLists \cup {NotAnArray("Service unavailable"), NoData}

\* The failures of this component's requests: with the server's error, with
\* a message only, with neither
FilteringFailures ==
    { AxiosError(Str("Server error"), Undefined, Str("Request failed with status code 500")),
      AxiosError(Undefined, Undefined, Str("Network Error")),
      AxiosError(Undefined, Undefined, Undefined) }

\* The stats the component starts with and falls back to
ZeroStats == [totalContacted |-> Num(0), totalReplies |-> Num(0),
              positiveReplies |-> Num(0), leadRate |-> "0%"]

InitFiltering ==
    /\ pc = "constructed"
    /\ campaigns = <<>> /\ previousCampaigns = <<>> /\ workspaces = <<>>
    /\ saved \in {Null, Workspace("w2", "Two")}
    /\ selectedWorkspace = saved
    /\ loading = TRUE /\ error = Null /\ statusFilter = "ALL"
    /\ dateRange = [startDate |-> StartOfDay(Today - DefaultDays * DayLength),
                    endDate |-> EndOfDay(Today)]
    /\ sortBy = "created_at" /\ sortOrder = "desc"
    /\ stats = ZeroStats
    /\ result = Undefined
    /\ selectedTeam = "ALL" /\ workspaceName = Undefined
    /\ Idle

\* The message of what a function has thrown
MessageOf(thrown) == SubSeq(thrown, IndexIn(thrown, ":", 1) + 2, Len(thrown))

\* getFilteredStats as the component calls it: on a body that is no array,
\* campaigns.reduce is no function
FilteredStatsOf(data, range) ==
    IF IsArray(data) THEN getFilteredStats(data, range.startDate, range.endDate)
    ELSE [thrown |-> "TypeError: campaigns.reduce is not a function"]

\* A table row throws for a count that is null or undefined
RowThrows(campaign) ==
    \E count \in RowCounts : Get(campaign, count).t \in {"null", "undefined"}

\* The render throws: the table is shown and a row of filteredCampaigns
\* throws
RenderThrows(cs, filter, isLoading, message) ==
    /\ ~isLoading /\ ~Truthy(message)
    /\ \E i \in 1..Len(cs) : matchesStatus(filter, cs[i]) /\ RowThrows(cs[i])

\* A run of the effect that fetches the data in a render with the given
\* values: nothing without a workspace; else fetchData up to its await
FetchDataEffect(ws, status, range, sent) ==
    IF ~Truthy(ws)
    THEN /\ inflight' = sent
         /\ UNCHANGED <<loading, error, requestSeq>>
    ELSE /\ loading' = TRUE
         /\ error' = Null
         /\ requestSeq' = requestSeq + 1
         /\ inflight' = sent \cup
                {[id |-> requestSeq + 1, url |-> "/api/campaign-stats",
                  params |-> [workspaceId |-> Get(ws, "_id"),
                              status |-> IF status = "ALL" THEN Undefined
                                         ELSE Str(status)],
                  dateRange |-> range]}

\* The first render's effects: nothing to compute stats of; fetchWorkspaces
\* is called; a saved workspace is parsed and set again, and fetchData is
\* called for the initial selection and, in the render that follows, for the
\* one set again
FilteringMount ==
    /\ pc = "constructed"
    /\ pc' = "mounted"
    /\ LET sent == {[id |-> requestSeq + 1, url |-> "/api/workspaces",
                     selectedWorkspace |-> selectedWorkspace]}
           fetchData(id) ==
               [id |-> id, url |-> "/api/campaign-stats",
                params |-> [workspaceId |-> Get(selectedWorkspace, "_id"),
                            status |-> Undefined],
                dateRange |-> dateRange]
       IN  IF Truthy(saved)
           THEN /\ inflight' = sent \cup {fetchData(requestSeq + 2),
                                          fetchData(requestSeq + 3)}
                /\ requestSeq' = requestSeq + 3
           ELSE /\ inflight' = sent
                /\ requestSeq' = requestSeq + 1
    /\ UNCHANGED <<campaigns, previousCampaigns, workspaces, selectedWorkspace,
                   loading, error, statusFilter, dateRange, sortBy, sortOrder,
                   stats, saved, timers, effectTimer, timerSeq, changes,
                   result, selectedTeam, workspaceName>>

\* fetchWorkspaces, from the response on: no body and no workspace are
\* errors; else the workspaces are set and, when the component was built
\* with no workspace, the first is selected and saved
FilteringWorkspacesResolve(r, data) ==
    /\ pc = "mounted"
    /\ r \in inflight /\ r.url = "/api/workspaces"
    /\ IF data = NoData
       THEN /\ error' = Str("No data received from workspaces API")
            /\ inflight' = inflight \ {r}
            /\ UNCHANGED <<workspaces, selectedWorkspace, saved, loading,
                           requestSeq>>
       ELSE IF ~IsArray(data) \/ Len(data) = 0
       THEN /\ error' = Str("No workspaces found")
            /\ inflight' = inflight \ {r}
            /\ UNCHANGED <<workspaces, selectedWorkspace, saved, loading,
                           requestSeq>>
       ELSE /\ workspaces' = data
            /\ IF ~Truthy(r.selectedWorkspace)
               THEN /\ selectedWorkspace' = data[1]
                    /\ saved' = data[1]
                    /\ FetchDataEffect(data[1], statusFilter, dateRange,
                                       inflight \ {r})
               ELSE /\ inflight' = inflight \ {r}
                    /\ UNCHANGED <<selectedWorkspace, saved, loading, error,
                                   requestSeq>>
    /\ UNCHANGED <<pc, campaigns, previousCampaigns, statusFilter, dateRange,
                   sortBy, sortOrder, stats, timers, effectTimer, timerSeq,
                   changes, result, selectedTeam, workspaceName>>

\* fetchWorkspaces, from the rejection on
FilteringWorkspacesFail(r, e) ==
    /\ pc = "mounted"
    /\ r \in inflight /\ r.url = "/api/workspaces"
    /\ inflight' = inflight \ {r}
    /\ error' = Or(Or(ResponseData(e, "error"), e.message),
                   Str("Failed to fetch workspaces"))
    /\ UNCHANGED <<pc, campaigns, previousCampaigns, workspaces,
                   selectedWorkspace, loading, statusFilter, dateRange, sortBy,
                   sortOrder, stats, saved, timers, effectTimer, timerSeq,
                   requestSeq, changes, result, selectedTeam, workspaceName>>

\* fetchData, from the response on: the body becomes the campaigns and the
\* stats are those of the date range of the call; what getFilteredStats
\* throws is caught like a failure.  In the render that follows the rows of
\* the table are rendered; when none of them throws, the stats effect then
\* computes the stats of the campaigns for the date range of that render.
FilteringFetchDataResolve(r, data) ==
    /\ pc = "mounted"
    /\ r \in inflight /\ r.url = "/api/campaign-stats"
    /\ loading' = FALSE
    /\ \E newStats \in {FilteredStatsOf(data, r.dateRange)} :
           IF "thrown" \in DOMAIN newStats
           THEN /\ error' = Str(MessageOf(newStats.thrown))
                /\ campaigns' = <<>>
                /\ stats' = ZeroStats
                /\ inflight' = inflight \ {r}
                /\ UNCHANGED pc
           ELSE /\ campaigns' = data
                /\ UNCHANGED error
                /\ IF RenderThrows(data, statusFilter, FALSE, error)
                   THEN /\ pc' = "crashed"
                        /\ inflight' = {}
                        /\ stats' = newStats.returned
                   ELSE /\ UNCHANGED pc
                        /\ inflight' = inflight \ {r}
                        /\ stats' = IF Len(data) > 0
                                    THEN FilteredStatsOf(data, dateRange).returned
                                    ELSE newStats.returned
    /\ UNCHANGED <<previousCampaigns, workspaces, selectedWorkspace,
                   statusFilter, dateRange, sortBy, sortOrder, saved, timers,
                   effectTimer, timerSeq, requestSeq, changes, result,
                   selectedTeam, workspaceName>>

\* fetchData, from the rejection on
FilteringFetchDataFail(r, e) ==
    /\ pc = "mounted"
    /\ r \in inflight /\ r.url = "/api/campaign-stats"
    /\ inflight' = inflight \ {r}
    /\ error' = formatErrorMessage(e)
    /\ campaigns' = <<>>
    /\ stats' = ZeroStats
    /\ loading' = FALSE
    /\ UNCHANGED <<pc, previousCampaigns, workspaces, selectedWorkspace,
                   statusFilter, dateRange, sortBy, sortOrder, saved, timers,
                   effectTimer, timerSeq, requestSeq, changes, result,
                   selectedTeam, workspaceName>>

\* The most user events in one run of this component
MaxFilteringChanges == 2

\* handleWorkspaceChange(workspaceId), the choice of another option of the
\* workspace select: the workspace is selected and saved
FilteringHandleWorkspaceChange(workspaceId) ==
    /\ Rendered /\ changes < MaxFilteringChanges
    /\ workspaceId # Get(selectedWorkspace, "_id")
    /\ changes' = changes + 1
    /\ LET workspace == Find([i \in 1..Len(workspaces) |->
                                 workspaces[i]._id = workspaceId])
       IN  /\ workspace # 0
           /\ selectedWorkspace' = workspaces[workspace]
           /\ saved' = workspaces[workspace]
           /\ FetchDataEffect(workspaces[workspace], statusFilter, dateRange,
                              inflight)
    /\ UNCHANGED <<pc, campaigns, previousCampaigns, workspaces, statusFilter,
                   dateRange, sortBy, sortOrder, stats, timers, effectTimer,
                   timerSeq, result, selectedTeam, workspaceName>>

\* The options of the status select
FilteringStatusOptions == {"ALL", "ACTIVE", "PAUSED", "COMPLETED"}

\* setStatusFilter(value), the choice of another option of the status select:
\* the component renders with the new filter, and the rows of the campaigns
\* the filter now lets through are rendered; when one of them throws, the
\* component is gone before the effect that fetches the data runs
FilteringSetStatusFilter(value) ==
    /\ Rendered /\ changes < MaxFilteringChanges
    /\ value \in FilteringStatusOptions \ {statusFilter}
    /\ changes' = changes + 1
    /\ statusFilter' = value
    /\ IF RenderThrows(campaigns, value, loading, error)
       THEN /\ pc' = "crashed"
            /\ inflight' = {}
            /\ UNCHANGED <<loading, error, requestSeq>>
       ELSE /\ UNCHANGED pc
            /\ FetchDataEffect(selectedWorkspace, value, dateRange, inflight)
    /\ UNCHANGED <<campaigns, previousCampaigns, workspaces,
                   selectedWorkspace, dateRange, sortBy, sortOrder, stats,
                   saved, timers, effectTimer, timerSeq, result, selectedTeam,
                   workspaceName>>

\* handleDateChange({...dateRange, [which]: new Date(value)}), a change of a
\* date input: nothing for an emptied input, whose date is invalid; else the
\* range from the start of the start day to the end of the end day is set,
\* the stats effect computes the stats of the campaigns for it, and the data
\* are fetched again
FilteringHandleDateChange(which, value) ==
    /\ Rendered /\ changes < MaxFilteringChanges
    /\ which \in {"startDate", "endDate"}
    /\ value \in DateInputValues
    /\ changes' = changes + 1
    /\ \E time \in {DateGetTime(value)} :
        /\ time # Num(StartOfDay(dateRange[which]))
        /\ IF time.t # "number"
           THEN UNCHANGED <<dateRange, stats, loading, error, inflight, requestSeq>>
           ELSE /\ dateRange' =
                       [startDate |-> StartOfDay(IF which = "startDate" THEN time.v
                                                 ELSE dateRange.startDate),
                        endDate |-> EndOfDay(IF which = "endDate" THEN time.v
                                             ELSE dateRange.endDate)]
                /\ stats' = IF Len(campaigns) > 0
                            THEN FilteredStatsOf(campaigns, dateRange').returned
                            ELSE stats
                /\ FetchDataEffect(selectedWorkspace, statusFilter, dateRange',
                                   inflight)
    /\ UNCHANGED <<pc, campaigns, previousCampaigns, workspaces,
                   selectedWorkspace, statusFilter, sortBy, sortOrder, saved,
                   timers, effectTimer, timerSeq, result, selectedTeam,
                   workspaceName>>

\* handleSort(field), a click on a column header of the table, which is
\* shown when there are campaigns: the campaigns are sorted with the sort
\* state of the render clicked in, and the stats effect computes their stats
FilteringHandleSort(field) ==
    /\ Rendered /\ changes < MaxFilteringChanges
    /\ Len(campaigns) # 0
    /\ changes' = changes + 1
    /\ sortOrder' = NewOrder(field, sortBy, sortOrder)
    /\ sortBy' = field
    /\ campaigns' = sortCampaigns(campaigns, sortBy, sortOrder)
    /\ stats' = FilteredStatsOf(campaigns', dateRange).returned
    /\ UNCHANGED <<pc, previousCampaigns, workspaces, selectedWorkspace,
                   loading, error, statusFilter, dateRange, saved, timers,
                   effectTimer, inflight, timerSeq, requestSeq, result,
                   selectedTeam, workspaceName>>

NextFiltering ==
    \/ FilteringMount
    \/ \E r \in inflight : \E data \in FilteringWorkspaceBodies :
           FilteringWorkspacesResolve(r, data)
    \/ \E r \in inflight : \E e \in FilteringFailures : FilteringWorkspacesFail(r, e)
    \/ \E r \in inflight : \E data \in FilteringPayloads :
           FilteringFetchDataResolve(r, data)
    \/ \E r \in inflight : \E e \in FilteringFailures : FilteringFetchDataFail(r, e)
    \/ \E workspaceId \in WorkspaceIds : FilteringHandleWorkspaceChange(workspaceId)
    \/ \E value \in FilteringStatusOptions : FilteringSetStatusFilter(value)
    \/ \E which \in {"startDate", "endDate"} : \E value \in DateInputValues :
           FilteringHandleDateChange(which, value)
    \/ \E field \in {"camp_name", "created_at"} : FilteringHandleSort(field)

SpecFiltering == InitFiltering /\ [][NextFiltering]_vars

(***************************************************************************)
(* The App component of src/unnamed/part_002 (lines 484 to 979).  Its      *)
(* mount effects, fetchWorkspaces, the catch of fetchData and              *)
(* handleWorkspaceChange are, word for word, those of part_000's App, and  *)
(* the actions of that component stand for them.  It differs in the date   *)
(* range it starts with, in handleDateChange, which sets whatever date it  *)
(* is given, in the stats, which go by created_at alone and are computed   *)
(* again for every new campaigns array and date range, and in the table,   *)
(* which shows every campaign and whose rows take a missing count for 0.   *)
(***************************************************************************)
\* The days before now the range starts at when the component is built
CreatedDefaultDays == 7

\* getFilteredStats as the component calls it: on a body that is no array,
\* campaigns.map is no function
CreatedStatsOf(data, range) ==
    IF IsArray(data)
    THEN TheOne({[returned |->
                     [totalContacted  |-> Num(counted.returned.totalContacted),
                      totalReplies    |-> Num(counted.returned.totalReplies),
                      positiveReplies |-> Num(counted.returned.positiveReplies),
                      leadRate        |-> counted.returned.leadRate]] :
                    counted \in {getFilteredStatsOfCreated(data, range.startDate,
                                                           range.endDate)}})
    ELSE [thrown |-> "TypeError: campaigns.map is not a function"]

\* The range starts seven days before now and ends now, at the time of day
\* the component is built at (here the start of today)
InitCreated ==
    /\ pc = "constructed"
    /\ campaigns = <<>> /\ previousCampaigns = <<>> /\ workspaces = <<>>
    /\ saved \in {Null, Workspace("w2", "Two")}
    /\ selectedWorkspace = saved
    /\ loading = TRUE /\ error = Null /\ statusFilter = "ALL"
    /\ dateRange = [startDate |-> Today - CreatedDefaultDays * DayLength,
                    endDate |-> Today]
    /\ sortBy = "created_at" /\ sortOrder = "desc"
    /\ stats = ZeroStats
    /\ result = Undefined
    /\ selectedTeam = "ALL" /\ workspaceName = Undefined
    /\ Idle

\* fetchData, from the response on: the body becomes the campaigns and the
\* stats are those of the date range of the call; what getFilteredStats
\* throws is caught like a failure.  In the render that follows, the stats
\* effect computes the stats of the campaigns for the date range of that
\* render.
CreatedFetchDataResolve(r, data) ==
    /\ pc = "mounted"
    /\ r \in inflight /\ r.url = "/api/campaign-stats"
    /\ inflight' = inflight \ {r}
    /\ loading' = FALSE
    /\ IF ~IsArray(data)
       THEN /\ error' = Str(MessageOf(CreatedStatsOf(data, r.dateRange).thrown))
            /\ campaigns' = <<>>
            /\ stats' = ZeroStats
       ELSE /\ campaigns' = data
            /\ stats' = CreatedStatsOf(data, dateRange).returned
            /\ UNCHANGED error
    /\ UNCHANGED <<pc, previousCampaigns, workspaces, selectedWorkspace,
                   statusFilter, dateRange, sortBy, sortOrder, saved, timers,
                   effectTimer, timerSeq, requestSeq, changes, result,
                   selectedTeam, workspaceName>>

\* setStatusFilter(value), the choice of another option of the status
\* select: the table shows the campaigns whatever the filter, and the data
\* are fetched again
CreatedSetStatusFilter(value) ==
    /\ Rendered /\ changes < MaxFilteringChanges
    /\ value \in FilteringStatusOptions \ {statusFilter}
    /\ changes' = changes + 1
    /\ statusFilter' = value
    /\ FetchDataEffect(selectedWorkspace, value, dateRange, inflight)
    /\ UNCHANGED <<pc, campaigns, previousCampaigns, workspaces,
                   selectedWorkspace, dateRange, sortBy, sortOrder, stats,
                   saved, timers, effectTimer, timerSeq, result, selectedTeam,
                   workspaceName>>

\* handleDateChange({...dateRange, [which]: new Date(value)}), a change of a
\* date input: the range from the start of the start day to the end of the
\* end day is set, the stats effect computes the stats of the campaigns for
\* it, and the data are fetched again.  The date of an emptied input is
\* invalid and is set like any other: the render that follows throws a
\* RangeError at toISOString, before any effect runs.
CreatedHandleDateChange(which, value) ==
    /\ Rendered /\ changes < MaxFilteringChanges
    /\ which \in {"startDate", "endDate"}
    /\ value \in DateInputValues
    /\ changes' = changes + 1
    /\ \E time \in {DateGetTime(value)} :
        /\ time # Num(StartOfDay(dateRange[which]))
        /\ IF time.t # "number"
           THEN /\ dateRange' =
                       [startDate |-> IF which = "startDate" THEN NaN
                                      ELSE StartOfDay(dateRange.startDate),
                        endDate |-> IF which = "endDate" THEN NaN
                                    ELSE EndOfDay(dateRange.endDate)]
                /\ pc' = "crashed"
                /\ inflight' = {}
                /\ UNCHANGED <<stats, loading, error, requestSeq>>
           ELSE /\ dateRange' =
                       [startDate |-> StartOfDay(IF which = "startDate" THEN time.v
                                                 ELSE dateRange.startDate),
                        endDate |-> EndOfDay(IF which = "endDate" THEN time.v
                                             ELSE dateRange.endDate)]
                /\ stats' = CreatedStatsOf(campaigns, dateRange').returned
                /\ FetchDataEffect(selectedWorkspace, statusFilter, dateRange',
                                   inflight)
                /\ UNCHANGED pc
    /\ UNCHANGED <<campaigns, previousCampaigns, workspaces,
                   selectedWorkspace, statusFilter, sortBy, sortOrder, saved,
                   timers, effectTimer, timerSeq, result, selectedTeam,
                   workspaceName>>

\* handleSort(field), a click on a column header of the table, which is
\* shown when there are campaigns: the campaigns are sorted with the sort
\* state of the render clicked in, and the stats effect computes their stats
CreatedHandleSort(field) ==
    /\ Rendered /\ changes < MaxFilteringChanges
    /\ Len(campaigns) # 0
    /\ changes' = changes + 1
    /\ sortOrder' = NewOrder(field, sortBy, sortOrder)
    /\ sortBy' = field
    /\ campaigns' = sortCampaigns(campaigns, sortBy, sortOrder)
    /\ stats' = CreatedStatsOf(campaigns', dateRange).returned
    /\ UNCHANGED <<pc, previousCampaigns, workspaces, selectedWorkspace,
                   loading, error, statusFilter, dateRange, saved, timers,
                   effectTimer, inflight, timerSeq, requestSeq, result,
                   selectedTeam, workspaceName>>

NextCreated ==
    \/ FilteringMount
    \/ \E r \in inflight : \E data \in FilteringWorkspaceBodies :
           FilteringWorkspacesResolve(r, data)
    \/ \E r \in inflight : \E e \in FilteringFailures : FilteringWorkspacesFail(r, e)
    \/ \E r \in inflight : \E data \in FilteringPayloads :
           CreatedFetchDataResolve(r, data)
    \/ \E r \in inflight : \E e \in FilteringFailures : FilteringFetchDataFail(r, e)
    \/ \E workspaceId \in WorkspaceIds : FilteringHandleWorkspaceChange(workspaceId)
    \/ \E value \in FilteringStatusOptions : CreatedSetStatusFilter(value)
    \/ \E which \in {"startDate", "endDate"} : \E value \in DateInputValues :
           CreatedHandleDateChange(which, value)
    \/ \E field \in {"camp_name", "created_at"} : CreatedHandleSort(field)

SpecCreated == InitCreated /\ [][NextCreated]_vars

(***************************************************************************)
(* The App component of src/unnamed/part_003: the mount effect's fetchData *)
(* asks for the workspaces and then for the campaign stats of no workspace *)
(* in particular; the debounced fetchCampaigns validates the workspace id, *)
(* tests the body and normalizes the campaigns it stores.                  *)
(***************************************************************************)
HexDigits == "0123456789abcdefABCDEF"

\* An id test that looks at the length alone
IsValidObjectIdByLength(id) == id.t = "string" /\ Len(id.v) = 24

\* typeof id === 'string' && /^[0-9a-fA-F]{24}$/.test(id)
isValidObjectId(id) ==
    /\ id.t = "string"
    /\ Len(id.v) = 24
    /\ \A i \in 1..Len(id.v) : IndexIn(HexDigits, SubSeq(id.v, i, i), 1) > 0

\* s without the blanks it starts with
RECURSIVE TrimStart(_)
TrimStart(s) == IF s # "" /\ Head(s) = " " THEN TrimStart(Tail(s)) ELSE s

\* The decimal digits s starts with
RECURSIVE LeadingDigits(_)
LeadingDigits(s) ==
    IF s = "" THEN ""
    ELSE IF IndexIn(Digits, Head(s), 1) = 0 THEN ""
    ELSE Head(s) \o LeadingDigits(Tail(s))

\* The hexadecimal digits s starts with
RECURSIVE LeadingHexDigits(_)
LeadingHexDigits(s) ==
    IF s = "" THEN ""
    ELSE IF IndexIn(HexDigits, Head(s), 1) = 0 THEN ""
    ELSE Head(s) \o LeadingHexDigits(Tail(s))

\* The number a string of hexadecimal digits denotes
RECURSIVE ParseHexDigits(_, _)
ParseHexDigits(s, acc) ==
    IF s = "" THEN acc
    ELSE LET place == IndexIn(HexDigits, Head(s), 1)
         IN  ParseHexDigits(Tail(s),
                 16 * acc + (IF place > 16 THEN place - 7 ELSE place - 1))

\* parseInt(x) for a string of this model's characters, an integer, null or
\* undefined: blanks are skipped, a sign is taken, '0x' or '0X' after it
\* makes the radix 16, the digits that follow are the number and whatever
\* comes after them is ignored
parseInt(x) ==
    IF x.t = "number" THEN x
    ELSE IF x.t # "string" THEN NaN
    ELSE LET s        == TrimStart(x.v)
             signed   == s # "" /\ Head(s) \in {"-", "+"}
             unsigned == IF signed THEN Tail(s) ELSE s
             hex      == Len(unsigned) >= 2
                            /\ SubSeq(unsigned, 1, 2) \in {"0x", "0X"}
             digits   == IF hex
                         THEN LeadingHexDigits(SubSeq(unsigned, 3, Len(unsigned)))
                         ELSE LeadingDigits(unsigned)
             value    == IF hex THEN ParseHexDigits(digits, 0)
                         ELSE ParseDigits(digits, 0)
         IN  IF digits = "" THEN NaN
             ELSE IF signed /\ Head(s) = "-" THEN Num(-value)
             ELSE Num(value)

\* The counts fetchCampaigns normalizes
CountFields ==
    {"lead_count", "completed_lead_count", "lead_contacted_count", "sent_count",
     "replied_count", "positive_reply_count", "bounced_count",
     "unsubscribed_count"}

\* new Date().toISOString() at the time of the response
Now == DateString("now", 40)

\* parseInt(campaign[field]) || 0
NormalizedCount(campaign, field) == Or(parseInt(Get(campaign, field)), Num(0))

\* campaign.status || 'UNKNOWN'
NormalizedStatus(campaign) == Or(Get(campaign, "status"), Str("UNKNOWN"))

\* x.toString() for a string or an integer
toString(x) ==
    CASE x.t = "string" -> Str(x.v)
      [] x.t = "number" -> Str(IF x.v < 0 THEN "-" \o NatToString(-x.v)
                               ELSE NatToString(x.v))

\* The object the map of fetchCampaigns makes of a campaign with an _id: a
\* copy of the campaign (every property it has is kept) in which the _id is
\* a string and the name, the status, the counts and the date are normalized
NormalizedCampaign(campaign) ==
    [name \in DOMAIN campaign \cup CountFields
                  \cup {"_id", "camp_name", "status", "created_at"} |->
        CASE name = "_id"        -> toString(Get(campaign, "_id"))
          [] name = "camp_name"  -> Or(Get(campaign, "camp_name"),
                                       Str("Unnamed Campaign"))
          [] name = "status"     -> NormalizedStatus(campaign)
          [] name \in CountFields -> NormalizedCount(campaign, name)
          [] name = "created_at" -> Or(Get(campaign, "created_at"), Now)
          [] OTHER               -> campaign[name]]

\* array.map(NormalizedCampaign)
NormalizedCampaigns(data) == [i \in 1..Len(data) |-> NormalizedCampaign(data[i])]

\* A campaign of the response with its _id and its lead_count
Raw(id, leadCount, campaign) ==
    [t |-> "object", _id |-> id, lead_count |-> leadCount,
     camp_name |-> campaign.camp_name, status |-> campaign.status,
     lead_contacted_count |-> campaign.lead_contacted_count,
     replied_count |-> campaign.replied_count,
     positive_reply_count |-> campaign.positive_reply_count,
     created_at |-> campaign.created_at]

\* A campaign of the response that carries the id of its workspace
OfWorkspace(id, campaign) ==
    [name \in DOMAIN campaign \cup {"workspace_id"} |->
        IF name = "workspace_id" THEN id ELSE campaign[name]]

\* What /api/campaign-stats may answer to fetchCampaigns: counts as numbers
\* and as strings (decimal and hexadecimal), negative, missing and null ones,
\* a status outside the enum and an empty one, an _id that is a number,
\* campaigns without an _id or with a null one, a body that is no array
RawPayloads ==
    { <<>>,
      NotAnArray("Service unavailable"),
      <<Raw(Str("c1"), Num(120),
            Campaign(Str("A"), Str("ACTIVE"), Num(100), Num(10), Num(25),
                     DateString("d10", 10))),
        Raw(Str("c2"), Str("12 leads"),
            Campaign(Undefined, Str(""), Str("abc"), Undefined, Null, Undefined))>>,
      <<Raw(Str("c3"), Num(120),
            Campaign(Str("C"), Str("DRAFT"), Num(100), Str(" 8"), Num(4),
                     DateString("d20", 20)))>>,
      <<Raw(Str("c4"), Num(-3),
            Campaign(Str("D"), Str("PAUSED"), Str("-7"), Num(0), Num(4),
                     DateString("d20", 20)))>>,
      <<Raw(Undefined, Num(1),
            Campaign(Str("E"), Str("ACTIVE"), Num(1), Num(1), Num(1),
                     DateString("d20", 20)))>>,
      <<Raw(Str("c5"), Num(2),
            Campaign(Str("F"), Str("ACTIVE"), Num(1), Num(1), Num(1),
                     DateString("d20", 20))),
        Raw(Null, Num(1),
            Campaign(Str("G"), Str("ACTIVE"), Num(1), Num(1), Num(1),
                     DateString("d20", 20)))>>,
      <<OfWorkspace(Str("w1"),
            Raw(Num(5), Str("0x1f"),
                Campaign(Str("H"), Str("ACTIVE"), Str("-0X10"), Str("0x"), Num(4),
                         DateString("d20", 20))))>> }

\* The workspaces of the response: one with an ObjectId, one without
ObjectIdWorkspaces ==
    { <<>>,
      <<Workspace("507f1f77bcf86cd799439011", "One"),
        Workspace("507f1f77bcf86cd79943901z", "Two")>> }

InitValidating ==
    /\ pc = "constructed"
    /\ campaigns = <<>> /\ previousCampaigns = <<>> /\ workspaces = <<>>
    /\ saved = Null
    /\ selectedWorkspace = Str("")
    /\ loading = TRUE /\ error = Null /\ statusFilter = "ALL"
    /\ dateRange = [startDate |-> Str("2024-02-23"), endDate |-> Str("2024-03-01")]
    /\ sortBy = "created_at" /\ sortOrder = "desc"
    /\ stats = InitialStats
    /\ result = Undefined
    /\ selectedTeam = "ALL" /\ workspaceName = Undefined
    /\ Idle

\* A run of the debounce effect in a render with the given values: the
\* cleanup of the run before, then a timer for fetchCampaigns
DebounceEffect(ws, status, range) ==
    /\ timers' = clearTimeout(timers, effectTimer) \cup
           {[id |-> timerSeq + 1, remaining |-> DebounceMs,
             selectedWorkspace |-> ws, statusFilter |-> status,
             dateRange |-> range]}
    /\ effectTimer' = timerSeq + 1
    /\ timerSeq' = timerSeq + 1

\* The first render's effects: fetchData asks for the workspaces, the
\* debounce effect arms its timer
ValidatingMount ==
    /\ pc = "constructed"
    /\ pc' = "mounted"
    /\ requestSeq' = requestSeq + 1
    /\ inflight' = inflight \cup
           {[id |-> requestSeq + 1, url |-> "/api/workspaces",
             by |-> "fetchData", params |-> Undefined]}
    /\ DebounceEffect(selectedWorkspace, statusFilter, dateRange)
    /\ UNCHANGED <<campaigns, previousCampaigns, workspaces, selectedWorkspace,
                   loading, error, statusFilter, dateRange, sortBy, sortOrder,
                   stats, saved, changes, result, selectedTeam,
                  workspaceName>>

\* fetchData, from the workspaces on: they are stored and the campaign stats
\* are asked for, with no parameter
FetchDataWorkspacesResolve(r, data) ==
    /\ r \in inflight /\ r.url = "/api/workspaces"
    /\ workspaces' = data
    /\ requestSeq' = requestSeq + 1
    /\ inflight' = (inflight \ {r}) \cup
           {[id |-> requestSeq + 1, url |-> "/api/campaign-stats",
             by |-> "fetchData", params |-> Undefined]}
    /\ UNCHANGED <<pc, campaigns, previousCampaigns, selectedWorkspace, loading,
                   error, statusFilter, dateRange, sortBy, sortOrder, stats,
                   saved, timers, effectTimer, timerSeq, changes, result, selectedTeam,
                  workspaceName>>

\* fetchData, from the campaign stats on: the body is stored as it is.  With
\* no error on display the render that follows a body that is no array throws
\* at campaigns.map
FetchDataCampaignsResolve(r, data) ==
    /\ r \in inflight /\ r.url = "/api/campaign-stats" /\ r.by = "fetchData"
    /\ campaigns' = data
    /\ stats' = calculateStats(data)
    /\ loading' = FALSE
    /\ IF IsArray(data) \/ Truthy(error)
       THEN /\ inflight' = inflight \ {r}
            /\ UNCHANGED <<pc, timers, effectTimer>>
       ELSE /\ pc' = "crashed"
            /\ inflight' = {}
            /\ timers' = {}
            /\ effectTimer' = 0
    /\ UNCHANGED <<previousCampaigns, workspaces, selectedWorkspace, error,
                   statusFilter, dateRange, sortBy, sortOrder, saved, timerSeq,
                   requestSeq, changes, result, selectedTeam,
                  workspaceName>>

\* fetchData, from the rejection of either request on
FetchDataFail(r, e) ==
    /\ r \in inflight /\ r.by = "fetchData"
    /\ inflight' = inflight \ {r}
    /\ error' = e.message
    /\ loading' = FALSE
    /\ UNCHANGED <<pc, campaigns, previousCampaigns, workspaces,
                   selectedWorkspace, statusFilter, dateRange, sortBy,
                   sortOrder, stats, saved, timers, effectTimer, timerSeq,
                   requestSeq, changes, result, selectedTeam,
                  workspaceName>>

\* The debounce timer runs fetchCampaigns, up to the request, with the values
\* of the render that armed it
FetchCampaigns(tm) ==
    /\ tm \in timers /\ tm.remaining = 0
    /\ timers' = timers \ {tm}
    /\ IF ~Truthy(tm.selectedWorkspace)
       THEN /\ error' = Str("Please select a workspace")
            /\ UNCHANGED <<loading, inflight, requestSeq>>
       ELSE IF ~isValidObjectId(tm.selectedWorkspace)
       THEN /\ error' = Str("Invalid workspace ID format. Please select a valid workspace.")
            /\ UNCHANGED <<loading, inflight, requestSeq>>
       ELSE IF NaN \in {DateGetTime(tm.dateRange.startDate),
                        DateGetTime(tm.dateRange.endDate)}
       THEN /\ error' = Str("Error loading campaigns: Invalid time value")
            /\ loading' = FALSE
            /\ UNCHANGED <<inflight, requestSeq>>
       ELSE /\ error' = Null
            /\ loading' = TRUE
            /\ requestSeq' = requestSeq + 1
            /\ inflight' = inflight \cup
                   {[id |-> requestSeq + 1, url |-> "/api/campaign-stats",
                     by |-> "fetchCampaigns",
                     params |->
                         [workspaceId |-> tm.selectedWorkspace,
                          start_date |->
                              Str(formatDate(DateGetTime(tm.dateRange.startDate).v)),
                          end_date |->
                              Str(formatDate(DateGetTime(tm.dateRange.endDate).v)),
                          status |-> IF tm.statusFilter # "ALL"
                                     THEN Str(tm.statusFilter) ELSE Undefined]]}
    /\ UNCHANGED <<pc, campaigns, previousCampaigns, workspaces,
                   selectedWorkspace, statusFilter, dateRange, sortBy,
                   sortOrder, stats, saved, effectTimer, timerSeq, changes,
                   result, selectedTeam,
                  workspaceName>>

\* campaign._id.toString() throws a TypeError
WithoutId(campaign) == Get(campaign, "_id").t \in {"undefined", "null"}

\* The place of the first campaign without an _id, from place i on
RECURSIVE FirstWithoutId(_, _)
FirstWithoutId(data, i) ==
    IF WithoutId(data[i]) THEN i ELSE FirstWithoutId(data, i + 1)

\* fetchCampaigns, from the response on: a body that is no array and a
\* campaign without an _id (the map stops at the first one) throw into the
\* catch; else the normalized campaigns and their stats are stored
FetchCampaignsResolve(r, data) ==
    /\ r \in inflight /\ r.url = "/api/campaign-stats" /\ r.by = "fetchCampaigns"
    /\ inflight' = inflight \ {r}
    /\ loading' = FALSE
    /\ IF ~IsArray(data)
       THEN /\ error' = Str("Error loading campaigns: Invalid response format: expected an array of campaigns")
            /\ UNCHANGED <<campaigns, stats>>
       ELSE IF \E i \in 1..Len(data) : WithoutId(data[i])
       THEN /\ error' =
                   Str("Error loading campaigns: Cannot read properties of "
                       \o Get(data[FirstWithoutId(data, 1)], "_id").t
                       \o " (reading 'toString')")
            /\ UNCHANGED <<campaigns, stats>>
       ELSE /\ campaigns' = NormalizedCampaigns(data)
            /\ stats' = calculateStats(NormalizedCampaigns(data))
            /\ error' = error
    /\ UNCHANGED <<pc, previousCampaigns, workspaces, selectedWorkspace,
                   statusFilter, dateRange, sortBy, sortOrder, saved, timers,
                   effectTimer, timerSeq, requestSeq, changes, result, selectedTeam,
                  workspaceName>>

\* fetchCampaigns, from the rejection on
FetchCampaignsFail(r, e) ==
    /\ r \in inflight /\ r.url = "/api/campaign-stats" /\ r.by = "fetchCampaigns"
    /\ inflight' = inflight \ {r}
    /\ error' = Str("Error loading campaigns: " \o formatErrorMessage(e).v)
    /\ loading' = FALSE
    /\ UNCHANGED <<pc, campaigns, previousCampaigns, workspaces,
                   selectedWorkspace, statusFilter, dateRange, sortBy,
                   sortOrder, stats, saved, timers, effectTimer, timerSeq,
                   requestSeq, changes, result, selectedTeam,
                  workspaceName>>

\* The user picks another workspace, status or date: the state is set and
\* the debounce effect runs again
debouncedWorkspaceChange(value) ==
    /\ Rendered /\ changes < MaxChanges
    /\ \E i \in 1..Len(workspaces) : workspaces[i]._id = value
    /\ value # ShownWorkspace
    /\ changes' = changes + 1
    /\ selectedWorkspace' = value
    /\ DebounceEffect(value, statusFilter, dateRange)
    /\ UNCHANGED <<pc, campaigns, previousCampaigns, workspaces, loading, error,
                   statusFilter, dateRange, sortBy, sortOrder, stats, saved,
                   inflight, requestSeq, result, selectedTeam,
                  workspaceName>>

debouncedStatusChange(value) ==
    /\ Rendered /\ changes < MaxChanges
    /\ value # statusFilter
    /\ changes' = changes + 1
    /\ statusFilter' = value
    /\ DebounceEffect(selectedWorkspace, value, dateRange)
    /\ UNCHANGED <<pc, campaigns, previousCampaigns, workspaces,
                   selectedWorkspace, loading, error, dateRange, sortBy,
                   sortOrder, stats, saved, inflight, requestSeq, result, selectedTeam,
                  workspaceName>>

debouncedDateChange(newRange) ==
    /\ Rendered /\ changes < MaxChanges
    /\ newRange # dateRange
    /\ changes' = changes + 1
    /\ dateRange' = newRange
    /\ DebounceEffect(selectedWorkspace, statusFilter, newRange)
    /\ UNCHANGED <<pc, campaigns, previousCampaigns, workspaces,
                   selectedWorkspace, loading, error, statusFilter, sortBy,
                   sortOrder, stats, saved, inflight, requestSeq, result, selectedTeam,
                  workspaceName>>

\* The values the date inputs give: a date, or '' for an emptied input
DateInputs == {Str("2024-03-08"), Str("")}

NextValidating ==
    \/ ValidatingMount
    \/ \E r \in inflight : \E data \in ObjectIdWorkspaces :
           FetchDataWorkspacesResolve(r, data)
    \/ \E r \in inflight : \E data \in Payloads : FetchDataCampaignsResolve(r, data)
    \/ \E r \in inflight : \E e \in Failures : FetchDataFail(r, e)
    \/ \E ms \in TickSteps : Tick(ms)
    \/ \E tm \in timers : FetchCampaigns(tm)
    \/ \E r \in inflight : \E data \in RawPayloads : FetchCampaignsResolve(r, data)
    \/ \E r \in inflight : \E e \in Failures : FetchCampaignsFail(r, e)
    \/ \E i \in 1..Len(workspaces) : debouncedWorkspaceChange(workspaces[i]._id)
    \/ \E value \in StatusOptions : debouncedStatusChange(value)
    \/ \E which \in {"startDate", "endDate"} : \E date \in DateInputs :
           debouncedDateChange([dateRange EXCEPT ![which] = date])
    \/ \E field \in SortFields : HandleSort(field)

SpecValidating == InitValidating /\ [][NextValidating]_vars

(***************************************************************************)
(* The App component of src/unnamed/part_001.  Its state, its mount effect *)
(* (fetchData), its debounce effect, its change handlers, handleSort and   *)
(* its render are, word for word, those of part_003's App, and the actions *)
(* of that component stand for them.  Its fetchCampaigns validates         *)
(* nothing: it asks for the campaign stats of any workspace, with the      *)
(* dates as they are, and stores the body as it is.                        *)
(***************************************************************************)
\* The debounce timer runs fetchCampaigns, up to the request, with the values
\* of the render that armed it: nothing without a workspace
DebouncedFetchCampaigns(tm) ==
    /\ tm \in timers /\ tm.remaining = 0
    /\ timers' = timers \ {tm}
    /\ IF ~Truthy(tm.selectedWorkspace)
       THEN UNCHANGED <<loading, error, inflight, requestSeq>>
       ELSE /\ loading' = TRUE
            /\ error' = Null
            /\ requestSeq' = requestSeq + 1
            /\ inflight' = inflight \cup
                   {[id |-> requestSeq + 1, url |-> "/api/campaign-stats",
                     by |-> "fetchCampaigns",
                     params |->
                         [workspaceId |-> tm.selectedWorkspace,
                          startDate |-> tm.dateRange.startDate,
                          endDate |-> tm.dateRange.endDate,
                          status |-> IF tm.statusFilter # "ALL"
                                     THEN Str(tm.statusFilter) ELSE Undefined]]}
    /\ UNCHANGED <<pc, campaigns, previousCampaigns, workspaces,
                   selectedWorkspace, statusFilter, dateRange, sortBy,
                   sortOrder, stats, saved, effectTimer, timerSeq, changes,
                   result, selectedTeam, workspaceName>>

\* fetchCampaigns, from the response on: the body is stored as it is and the
\* stats are left as they are.  With no error on display the render that
\* follows a body that is no array throws at campaigns.map
DebouncedFetchCampaignsResolve(r, data) ==
    /\ r \in inflight /\ r.url = "/api/campaign-stats" /\ r.by = "fetchCampaigns"
    /\ campaigns' = data
    /\ loading' = FALSE
    /\ IF IsArray(data) \/ Truthy(error)
       THEN /\ inflight' = inflight \ {r}
            /\ UNCHANGED <<pc, timers, effectTimer>>
       ELSE /\ pc' = "crashed"
            /\ inflight' = {}
            /\ timers' = {}
            /\ effectTimer' = 0
    /\ UNCHANGED <<previousCampaigns, workspaces, selectedWorkspace, error,
                   statusFilter, dateRange, sortBy, sortOrder, stats, saved,
                   timerSeq, requestSeq, changes, result, selectedTeam,
                   workspaceName>>

\* fetchCampaigns, from the rejection on
DebouncedFetchCampaignsFail(r, e) ==
    /\ r \in inflight /\ r.url = "/api/campaign-stats" /\ r.by = "fetchCampaigns"
    /\ inflight' = inflight \ {r}
    /\ error' = Or(ResponseData(e, "error"), Str("Failed to fetch campaigns"))
    /\ loading' = FALSE
    /\ UNCHANGED <<pc, campaigns, previousCampaigns, workspaces,
                   selectedWorkspace, statusFilter, dateRange, sortBy,
                   sortOrder, stats, saved, timers, effectTimer, timerSeq,
                   requestSeq, changes, result, selectedTeam, workspaceName>>

NextDebounced ==
    \/ ValidatingMount
    \/ \E r \in inflight : \E data \in ObjectIdWorkspaces :
           FetchDataWorkspacesResolve(r, data)
    \/ \E r \in inflight : \E data \in Payloads : FetchDataCampaignsResolve(r, data)
    \/ \E r \in inflight : \E e \in Failures : FetchDataFail(r, e)
    \/ \E ms \in TickSteps : Tick(ms)
    \/ \E tm \in timers : DebouncedFetchCampaigns(tm)
    \/ \E r \in inflight : \E data \in RawPayloads :
           DebouncedFetchCampaignsResolve(r, data)
    \/ \E r \in inflight : \E e \in Failures : DebouncedFetchCampaignsFail(r, e)
    \/ \E i \in 1..Len(workspaces) : debouncedWorkspaceChange(workspaces[i]._id)
    \/ \E value \in StatusOptions : debouncedStatusChange(value)
    \/ \E which \in {"startDate", "endDate"} : \E date \in DateInputs :
           debouncedDateChange([dateRange EXCEPT ![which] = date])
    \/ \E field \in SortFields : HandleSort(field)

SpecDebounced == InitValidating /\ [][NextDebounced]_vars

\* A response body that fetchCampaigns normalizes and stores
Ingested(data) ==
    /\ IsArray(data)
    /\ \A i \in 1..Len(data) : ~WithoutId(data[i])

\* C21: after the normalization at ingestion every count field of every
\* stored campaign is an integer >= 0, whatever the backend returned:
\* non-numeric and missing values have become 0, no negative value is left
C21_CountsAreNonNegativeIntegers ==
    [][\A r \in inflight : \A data \in RawPayloads :
           (FetchCampaignsResolve(r, data) /\ Ingested(data))
               => \A i \in 1..Len(campaigns') : \A field \in CountFields :
                      /\ campaigns'[i][field].t = "number"
                      /\ campaigns'[i][field].v >= 0]_vars

\* The statuses of the enum
StatusEnum == {"ACTIVE", "COMPLETED", "PAUSED", "ARCHIVED", "UNKNOWN"}

\* C22: after the normalization at ingestion the status of every stored
\* campaign is one of ACTIVE, COMPLETED, PAUSED, ARCHIVED, UNKNOWN: a raw
\* status outside the enum has been replaced by UNKNOWN
C22_StatusWithinEnum ==
    [][\A r \in inflight : \A data \in RawPayloads :
           (FetchCampaignsResolve(r, data) /\ Ingested(data))
               => \A i \in 1..Len(campaigns') :
                      /\ campaigns'[i].status.t = "string"
                      /\ campaigns'[i].status.v \in StatusEnum]_vars

\* The hexadecimal digits, one by one
HexChars ==
    {"0", "1", "2", "3", "4", "5", "6", "7", "8", "9",
     "a", "b", "c", "d", "e", "f", "A", "B", "C", "D", "E", "F"}

\* A string of exactly 24 hexadecimal digits
Is24Hex(id) ==
    /\ id.t = "string"
    /\ \E n \in {Len(id.v)} :
           n = 24 /\ \A i \in 1..n : SubSeq(id.v, i, i) \in HexChars

\* The validation messages of fetchCampaigns
ValidationErrors ==
    {Str("Please select a workspace"),
     Str("Invalid workspace ID format. Please select a valid workspace.")}

\* C24: when the selected workspace id is not a string of 24 hexadecimal
\* digits, fetchCampaigns sends no request, sets a validation error and
\* leaves campaigns and stats as they are
C24_InvalidWorkspaceIdSendsNothing ==
    [][\A tm \in timers :
           (FetchCampaigns(tm) /\ ~Is24Hex(tm.selectedWorkspace))
               => /\ inflight' = inflight
                  /\ requestSeq' = requestSeq
                  /\ error' \in ValidationErrors
                  /\ campaigns' = campaigns
                  /\ stats' = stats]_vars

\* fetchCampaigns has refused a workspace id chosen by the user
C24_Witness ==
    /\ error = Str("Invalid workspace ID format. Please select a valid workspace.")
    /\ Truthy(selectedWorkspace) /\ ~Is24Hex(selectedWorkspace)
    /\ inflight = {}

\* C26: every failure of a workspaces or campaign-stats request is caught in
\* the fetch routine: it ends with error a non-empty message and loading
\* false, and nothing is thrown into the render
C26_FailuresEndWithErrorAndNotLoading ==
    [][\A r \in inflight : \A e \in Failures :
           (WorkspacesFail(r) \/ CampaignsFail(r, e))
               => /\ error'.t = "string" /\ error'.v # ""
                  /\ loading' = FALSE
                  /\ pc' # "crashed"]_vars

\* C27: in every reachable state loading is true while a campaign-stats
\* request that was sent has not been answered; the answer to a request
\* does not set loading to false while a newer request is in flight
C27_LoadingWhileRequestInFlight == CampaignRequests # {} => loading

\* C30: no campaign-stats request is sent without a workspace: every request
\* in flight carries the id of the workspace that was selected when it was
\* sent
C30_EveryRequestCarriesWorkspace ==
    \A r \in CampaignRequests :
        /\ r.params # Undefined
        /\ Is24Hex(r.params.workspaceId)

====
